---------------------------- MODULE Spec2Model ----------------------------
(***************************************************************************)
(* A model of vold's Disk (model/Disk.cpp): the lifecycle state machine    *)
(* (create / destroy), the partition-table scan (readPartitions), the      *)
(* metadata read and the three repartitioning operations.                  *)
(*                                                                         *)
(* Text is modelled as sequences of one-character strings, so that the     *)
(* conversions of the code (integer parsing, case-insensitive comparison,  *)
(* hex normalisation) are computed and not assumed.                        *)
(***************************************************************************)
EXTENDS Integers, Sequences, FiniteSets, TLC

(***************************************************************************)
(* Bounds of the model.                                                    *)
(***************************************************************************)
\* longest partition-dump output, in lines
MaxLines == 2
\* size of the pool the random partition identifiers are drawn from
MaxGuids == 1

(***************************************************************************)
(* Program constants.                                                      *)
(***************************************************************************)
kMajorBlockLoop == 7
kMajorBlockScsiA == 8
kMajorBlockScsiB == 65
kMajorBlockScsiH == 71
kMajorBlockScsiI == 128
kMajorBlockScsiP == 135
kMajorBlockMmc == 179
kMajorBlockDynamicMin == 234
kMajorBlockDynamicMax == 512

kGptBasicData ==
    << "E", "B", "D", "0", "A", "0", "A", "2", "-", "B", "9", "E", "5", "-", "4", "4", "3", "3", "-", "8", "7", "C", "0", "-", "6", "8", "B", "6", "B", "7", "2", "6", "9", "9", "C", "7" >>
kGptLinuxFilesystem ==
    << "0", "F", "C", "6", "3", "D", "A", "F", "-", "8", "4", "8", "3", "-", "4", "7", "7", "2", "-", "8", "E", "7", "9", "-", "3", "D", "6", "9", "D", "8", "4", "7", "7", "D", "E", "4" >>
kGptAndroidMeta ==
    << "1", "9", "A", "7", "1", "0", "A", "2", "-", "B", "3", "C", "A", "-", "1", "1", "E", "4", "-", "B", "0", "2", "6", "-", "1", "0", "6", "0", "4", "B", "8", "8", "9", "D", "C", "F" >>
kGptAndroidExpand ==
    << "1", "9", "3", "D", "1", "E", "A", "4", "-", "B", "3", "C", "A", "-", "1", "1", "E", "4", "-", "B", "0", "7", "5", "-", "1", "0", "6", "0", "4", "B", "8", "8", "9", "D", "C", "F" >>

\* Table::kUnknown, Table::kMbr, Table::kGpt
kUnknown == "kUnknown"
kMbr == "kMbr"
kGpt == "kGpt"

\* status_t values
OK == "OK"
ENOTSUP == "-ENOTSUP"
EINVAL == "-EINVAL"
EIO == "-EIO"
errno == "-errno"
\* a non-zero exit status of the external tool
ToolError == "tool-error"

(***************************************************************************)
(* Text: characters, case folding, hexadecimal digits.                     *)
(***************************************************************************)
\* the result of an operation that may fail: Fail, or Ok(value)
Fail == [ok |-> FALSE]
Ok(v) == [ok |-> TRUE, v |-> v]

LowerLetters == << "a", "b", "c", "d", "e", "f", "g", "h", "i", "j", "k", "l", "m",
                   "n", "o", "p", "q", "r", "s", "t", "u", "v", "w", "x", "y", "z" >>
UpperLetters == << "A", "B", "C", "D", "E", "F", "G", "H", "I", "J", "K", "L", "M",
                   "N", "O", "P", "Q", "R", "S", "T", "U", "V", "W", "X", "Y", "Z" >>
\* the digits of StrToHex
kLookup == << "0", "1", "2", "3", "4", "5", "6", "7", "8", "9",
              "a", "b", "c", "d", "e", "f" >>

\* position of c in the sequence s, 0 when absent
IndexOf(s, c) ==
    IF \E i \in 1..Len(s) : s[i] = c
    THEN CHOOSE i \in 1..Len(s) : s[i] = c
    ELSE 0

\* tolower() / toupper() on one character
ToLowerChar(c) ==
    IF IndexOf(UpperLetters, c) > 0 THEN LowerLetters[IndexOf(UpperLetters, c)] ELSE c
ToUpperChar(c) ==
    IF IndexOf(LowerLetters, c) > 0 THEN UpperLetters[IndexOf(LowerLetters, c)] ELSE c
ToLower(s) == [i \in 1..Len(s) |-> ToLowerChar(s[i])]
ToUpper(s) == [i \in 1..Len(s) |-> ToUpperChar(s[i])]

\* android::base::EqualsIgnoreCase: same length, characters equal after tolower()
EqualsIgnoreCase(a, b) ==
    /\ Len(a) = Len(b)
    /\ \A i \in 1..Len(a) : ToLowerChar(a[i]) = ToLowerChar(b[i])

\* value of a digit in the given base, -1 when it is none
DigitVal(c, base) == IndexOf(SubSeq(kLookup, 1, base), ToLowerChar(c)) - 1

RECURSIVE DigitsValue(_, _, _)
\* value of a sequence of digits of the given base, most significant first
DigitsValue(s, base, acc) ==
    IF s = << >> THEN acc
    ELSE DigitsValue(Tail(s), base, acc * base + DigitVal(Head(s), base))

\* android::base::ParseInt(s, &out, min, max): strtoll in base 16 when s starts
\* with 0x or 0X and in base 10 otherwise; the whole of s must be consumed and
\* the value must lie in [min, max].
InRange(val, min, max) == IF val >= min /\ val <= max THEN Ok(val) ELSE Fail
ParseDigits(digits, base, sign, min, max) ==
    IF digits # << >> /\ \A i \in 1..Len(digits) : DigitVal(digits[i], base) >= 0
    THEN InRange(sign * DigitsValue(digits, base, 0), min, max)
    ELSE Fail
ParseInt(s, min, max) ==
    IF Len(s) >= 2 /\ s[1] = "0" /\ s[2] \in {"x", "X"}
    THEN ParseDigits(SubSeq(s, 3, Len(s)), 16, 1, min, max)
    ELSE IF Len(s) >= 1 /\ s[1] = "-" THEN ParseDigits(Tail(s), 10, -1, min, max)
    ELSE IF Len(s) >= 1 /\ s[1] = "+" THEN ParseDigits(Tail(s), 10, 1, min, max)
    ELSE ParseDigits(s, 10, 1, min, max)

\* android::base::Trim: leading and trailing white space removed
IsSpace(c) == c \in {" ", "\t", "\n"}
RECURSIVE TrimLeft(_)
TrimLeft(s) == IF s # << >> /\ IsSpace(Head(s)) THEN TrimLeft(Tail(s)) ELSE s
RECURSIVE TrimRight(_)
TrimRight(s) ==
    IF s # << >> /\ IsSpace(s[Len(s)]) THEN TrimRight(SubSeq(s, 1, Len(s) - 1)) ELSE s
Trim(s) == TrimRight(TrimLeft(s))

\* the longest prefix of s made of decimal digits
RECURSIVE DigitPrefix(_)
DigitPrefix(s) ==
    IF s # << >> /\ DigitVal(Head(s), 10) >= 0
    THEN << Head(s) >> \o DigitPrefix(Tail(s))
    ELSE << >>

\* std::stoi(s): leading white space, an optional sign, then the longest run of
\* decimal digits; what follows is ignored.  Fail (std::invalid_argument, which
\* nothing catches) when there is no digit.
StoiDigits(digits, sign) ==
    IF digits = << >> THEN Fail ELSE Ok(sign * DigitsValue(digits, 10, 0))
StoiSigned(t) ==
    IF t # << >> /\ Head(t) = "-" THEN StoiDigits(DigitPrefix(Tail(t)), -1)
    ELSE IF t # << >> /\ Head(t) = "+" THEN StoiDigits(DigitPrefix(Tail(t)), 1)
    ELSE StoiDigits(DigitPrefix(t), 1)
stoi(s) == StoiSigned(TrimLeft(s))

\* C++ integer division, which truncates towards zero
TruncDiv(a, b) ==
    IF a >= 0 THEN a \div b ELSE 0 - ((0 - a) \div b)

\* std::string::find(sub) != npos
Contains(s, sub) ==
    \E i \in 1..(Len(s) - Len(sub) + 1) : SubSeq(s, i, i + Len(sub) - 1) = sub

(***************************************************************************)
(* The state: the fields of one Disk, and what it shares with the rest of  *)
(* the process (the listener of VolumeManager, the key store).             *)
(***************************************************************************)
VARIABLES
    mDevice,            \* << major, minor >> of the raw device
    mSysPath,           \* "/sys/" + eventPath
    mFlags,             \* the set of flags; "kStub" makes isStub() true
    virtioBlk,          \* what IsVirtioBlkDevice(major(mDevice)) answers
    listener,           \* VolumeManager::getListener() is not null
    mCreated,
    mJustPartitioned,
    mSkipChange,
    mVolumes,           \* the owned volumes, in discovery order
    mSize,
    mLabel,
    keyStore,           \* key path -> key bytes, the files written so far
    issued,             \* raw identifiers GenerateRandomUuid has returned
    written,            \* identifiers given to a table-construction command
    generated,          \* [guid, key] of the partition operations that returned OK
    balance,            \* create() calls that returned minus destroy() calls that did
    destroyed,          \* a destroy() call has returned
    partFailed,         \* "yes": the last partition operation returned an error;
                        \* "rescanned": and a scan or initializePartition() ran since
    aborted,            \* a CHECK failed (or the process crashed): nothing runs after
    call,               \* the last operation: its name, inputs and result
    trace               \* what the last operation did, in order

vars == << mDevice, mSysPath, mFlags, virtioBlk, listener, mCreated, mJustPartitioned,
           mSkipChange, mVolumes, mSize, mLabel, keyStore, issued, written, generated,
           balance, destroyed, partFailed, aborted, call, trace >>

\* the part of the state an operation reads and writes, as one value
Disk ==
    [ mCreated |-> mCreated, mJustPartitioned |-> mJustPartitioned,
      mSkipChange |-> mSkipChange, mVolumes |-> mVolumes, mSize |-> mSize,
      mLabel |-> mLabel, keyStore |-> keyStore, issued |-> issued,
      written |-> written, generated |-> generated, aborted |-> FALSE,
      res |-> OK, trace |-> << >> ]

\* one step of an operation, as recorded in trace
Ev(e, a) == [e |-> e, a |-> a]
Emit(d, e, a) == [d EXCEPT !.trace = Append(@, Ev(e, a))]

major(dev) == dev[1]
minor(dev) == dev[2]
makedev(ma, mi) == << ma, mi >>
\* mId, "disk:%u,%u"
getId == << "disk", major(mDevice), minor(mDevice) >>
isStub == "kStub" \in mFlags

\* "if (listener) listener->onX(...)": the notification reaches the listener
\* only when there is one
Notify(d, e, a) == IF listener THEN Emit(d, e, a) ELSE d

(***************************************************************************)
(* Volumes (VolumeBase and its subclasses are used, not modelled in depth: *)
(* a volume is what the Disk gave it and which of its methods ran).        *)
(***************************************************************************)
NewVolume(type, device, key) ==
    [ type |-> type, device |-> device, key |-> key, partGuid |-> << >>,
      diskId |-> << >>, silent |-> FALSE, created |-> FALSE, formatted |-> FALSE ]

\* the silent format run whatever mJustPartitioned
SilentFormat_Always(d, vol) ==
    [ d   |-> Emit(Emit(Emit(Emit(Emit(d,
                 "vol.setSilent", << vol.device, TRUE >>),
                 "vol.create", vol.device),
                 "vol.format", << vol.device, "auto" >>),
                 "vol.destroy", vol.device),
                 "vol.setSilent", << vol.device, FALSE >>),
      vol |-> [vol EXCEPT !.formatted = TRUE, !.silent = FALSE, !.created = FALSE] ]

\* the "if (mJustPartitioned)" block of createPublicVolume / createPrivateVolume
SilentFormat(d, vol) ==
    IF d.mJustPartitioned
    THEN [ d   |-> Emit(Emit(Emit(Emit(Emit(d,
                      "vol.setSilent", << vol.device, TRUE >>),
                      "vol.create", vol.device),
                      "vol.format", << vol.device, "auto" >>),
                      "vol.destroy", vol.device),
                      "vol.setSilent", << vol.device, FALSE >>),
           vol |-> [vol EXCEPT !.formatted = TRUE, !.silent = FALSE, !.created = FALSE] ]
    ELSE [ d |-> d, vol |-> vol ]

\* the second half of createPublicVolume; f is what the silent format leaves
AddPublicVolume(f, device) ==
    [Emit(Emit(Emit(f.d, "mVolumes.push_back", device),
                         "vol.setDiskId", << device, getId >>),
                         "vol.create", device)
        EXCEPT !.mVolumes = Append(@, [f.vol EXCEPT !.diskId = getId, !.created = TRUE])]

createPublicVolume(d, device) ==
    AddPublicVolume(SilentFormat(Emit(d, "new PublicVolume", device),
                                 NewVolume("public", device, << >>)),
                    device)

(***************************************************************************)
(* The key store and the identifier conversions (Utils: HexToStr,          *)
(* StrToHex, NormalizeHex, BuildKeyPath).                                  *)
(***************************************************************************)
RECURSIVE HexNibbles(_)
\* the values of the hex digits of s, separators skipped; it ends with -1 at
\* the first character that is neither
HexNibbles(s) ==
    IF s = << >> THEN << >>
    ELSE IF Head(s) \in {" ", "-", ":"} THEN HexNibbles(Tail(s))
    ELSE IF DigitVal(Head(s), 16) < 0 THEN << -1 >>
    ELSE << DigitVal(Head(s), 16) >> \o HexNibbles(Tail(s))

\* hex text to bytes; Fail on a bad character or an odd number of digits
PairNibbles(n) ==
    IF n # << >> /\ n[Len(n)] = -1 THEN Fail
    ELSE IF Len(n) % 2 # 0 THEN Fail
    ELSE Ok([i \in 1..(Len(n) \div 2) |-> 16 * n[2 * i - 1] + n[2 * i]])
HexToStr(hex) == PairNibbles(HexNibbles(hex))

RECURSIVE StrToHex(_)
\* bytes to lowercase hex text, two digits a byte
StrToHex(str) ==
    IF str = << >> THEN << >>
    ELSE << kLookup[(Head(str) \div 16) + 1], kLookup[(Head(str) % 16) + 1] >>
         \o StrToHex(Tail(str))

\* the identifier as lowercase hex without separators, or Fail
HexOf(str) == IF str.ok THEN Ok(StrToHex(str.v)) ELSE Fail
NormalizeHex(in) == HexOf(HexToStr(in))

\* the file that holds the key of the partition with this normalised identifier
BuildKeyPath(partGuid) == << "expand_", partGuid, ".key" >>

\* android::base::ReadFileToString on the key store: the content, or Fail
ReadFileToString(store, path) ==
    IF path \in DOMAIN store THEN Ok(store[path]) ELSE Fail

\* android::base::WriteStringToFile on the key store
WriteStringToFile(store, content, path) ==
    [p \in (DOMAIN store) \cup {path} |-> IF p = path THEN content ELSE store[p]]

\* the first half of createPrivateVolume: the key stored for the partition
\* GUID, looked up under its normalised form; Fail when the GUID is invalid or
\* the key file cannot be read
\* the key looked up under the identifier as the dump prints it
LoadKey_Raw(store, partGuid) == ReadFileToString(store, BuildKeyPath(partGuid))

ReadKey(store, normalizedGuid) ==
    IF ~normalizedGuid.ok THEN Fail
    ELSE ReadFileToString(store, BuildKeyPath(normalizedGuid.v))
LoadKey(store, partGuid) == ReadKey(store, NormalizeHex(partGuid))

\* the second half of createPrivateVolume, from "new PrivateVolume" on; f is
\* what the silent format leaves
AddPrivateVolume(f, device, partGuid) ==
    [Emit(Emit(Emit(Emit(f.d, "mVolumes.push_back", device),
                              "vol.setDiskId", << device, getId >>),
                              "vol.setPartGuid", << device, partGuid >>),
                              "vol.create", device)
        EXCEPT !.mVolumes = Append(@, [f.vol EXCEPT !.diskId = getId,
                                                    !.partGuid = partGuid,
                                                    !.created = TRUE])]

\* createPrivateVolume that goes on, with an empty key, when the key file
\* could not be read
WithKey_Unchecked(d, device, partGuid, keyRaw) ==
    AddPrivateVolume(SilentFormat(Emit(d, "new PrivateVolume",
                                       << device, IF keyRaw.ok THEN keyRaw.v ELSE << >> >>),
                                  NewVolume("private", device,
                                            IF keyRaw.ok THEN keyRaw.v ELSE << >>)),
                     device, partGuid)

\* createPrivateVolume once the key file has been read as keyRaw
WithKey(d, device, partGuid, keyRaw) ==
    IF ~keyRaw.ok THEN d
    ELSE AddPrivateVolume(SilentFormat(Emit(d, "new PrivateVolume", << device, keyRaw.v >>),
                                       NewVolume("private", device, keyRaw.v)),
                          device, partGuid)

createPrivateVolume(d, device, partGuid) ==
    WithKey(Emit(d, "createPrivateVolume", << device, partGuid >>), device, partGuid,
            LoadKey(d.keyStore, partGuid))

createStubVolume(d) ==
    IF Len(d.mVolumes) # 1 THEN [d EXCEPT !.aborted = TRUE]
    ELSE [Emit(Emit(Notify(Notify(d, "onDiskMetadataChanged",
                                  << getId, d.mSize, d.mLabel, mSysPath >>),
                           "onDiskScanned", getId),
                    "vol.setDiskId", << d.mVolumes[1].device, getId >>),
               "vol.create", d.mVolumes[1].device)
            EXCEPT !.mVolumes = << [d.mVolumes[1] EXCEPT !.diskId = getId,
                                                         !.created = TRUE] >>]

RECURSIVE DestroyEach(_, _)
\* vol->destroy() on each volume, in order
DestroyEach(d, vols) ==
    IF vols = << >> THEN d
    ELSE DestroyEach(Emit(d, "vol.destroy", Head(vols).device), Tail(vols))

\* destroyAllVolumes without "mVolumes.clear()"
destroyAllVolumes_NoClear(d) ==
    Emit(DestroyEach(d, d.mVolumes), "mVolumes.clear", Len(d.mVolumes))

\* destroyAllVolumes without the loop of "vol->destroy()"
destroyAllVolumes_ClearOnly(d) ==
    [Emit(d, "mVolumes.clear", Len(d.mVolumes)) EXCEPT !.mVolumes = << >>]

destroyAllVolumes(d) ==
    [Emit(DestroyEach(d, d.mVolumes), "mVolumes.clear", Len(d.mVolumes))
        EXCEPT !.mVolumes = << >>]

(***************************************************************************)
(* Device classes.                                                         *)
(***************************************************************************)
IsScsiMajor(majorId) ==
    \/ majorId = kMajorBlockScsiA
    \/ majorId \in kMajorBlockScsiB..kMajorBlockScsiH
    \/ majorId \in kMajorBlockScsiI..kMajorBlockScsiP

IsVirtioBlkDevice(majorId) == virtioBlk

isNvmeBlkDevice(majorId, sysPath) ==
    /\ Contains(sysPath, << "n", "v", "m", "e" >>)
    /\ majorId >= kMajorBlockDynamicMin
    /\ majorId <= kMajorBlockDynamicMax

\* getMaxMinors(): sysfs holds what reading the two parameter files gives
\* (Fail, or Ok(content)).  The result is Ok(an int, negative for an error),
\* or Fail when std::stoi throws.
\* "if (!ReadFileToString(...)) return -errno; return std::stoi(tmp);"
MinorsIn(tmp) == IF ~tmp.ok THEN Ok(-2) ELSE stoi(tmp.v)

getMaxMinors(sysfs) ==
    IF major(mDevice) = kMajorBlockLoop THEN MinorsIn(sysfs.loop)
    ELSE IF IsScsiMajor(major(mDevice)) THEN Ok(15)
    ELSE IF major(mDevice) = kMajorBlockMmc
    THEN MinorsIn(IF sysfs.mmc.ok THEN sysfs.mmc ELSE sysfs.mmcDeprecated)
    ELSE IF IsVirtioBlkDevice(major(mDevice)) THEN Ok(15)
    ELSE IF isNvmeBlkDevice(major(mDevice), mSysPath) THEN Ok(127)
    ELSE Ok(-95)

(***************************************************************************)
(* readMetadata().  meta.size is what GetBlockDevSize gives, meta.file     *)
(* what reading the metadata file of the device's class gives.             *)
(***************************************************************************)
\* the "switch (manfid)" of readMetadata: the label of a known manufacturer
ManfidLabel(manfid) ==
    IF manfid = 3 THEN << "S", "a", "n", "D", "i", "s", "k" >>
    ELSE IF manfid = 27 THEN << "S", "a", "m", "s", "u", "n", "g" >>
    ELSE IF manfid = 40 THEN << "L", "e", "x", "a", "r" >>
    ELSE IF manfid = 116 THEN << "T", "r", "a", "n", "s", "c", "e", "n", "d" >>
    ELSE << >>

kVirtual == << "V", "i", "r", "t", "u", "a", "l" >>

\* the label of an MMC device whose manfid file parses as manfid
MmcLabel(manfid) ==
    IF ~manfid.ok THEN [res |-> EINVAL, label |-> << >>]
    ELSE [res |-> OK, label |-> ManfidLabel(manfid.v)]

\* the "switch (majorId)" of readMetadata: [res, label]
Classify(majorId, file) ==
    IF majorId = kMajorBlockLoop THEN [res |-> OK, label |-> kVirtual]
    ELSE IF IsScsiMajor(majorId)
    THEN IF ~file.ok THEN [res |-> errno, label |-> << >>]
         ELSE [res |-> OK, label |-> Trim(file.v)]
    ELSE IF majorId = kMajorBlockMmc
    THEN IF ~file.ok THEN [res |-> errno, label |-> << >>]
         ELSE MmcLabel(ParseInt(Trim(file.v), -2147483647, 2147483647))
    ELSE IF IsVirtioBlkDevice(majorId) THEN [res |-> OK, label |-> kVirtual]
    ELSE IF isNvmeBlkDevice(majorId, mSysPath)
    THEN IF ~file.ok THEN [res |-> errno, label |-> << >>]
         ELSE [res |-> OK, label |-> file.v]
    ELSE [res |-> ENOTSUP, label |-> << >>]

\* readMetadata once the size is read and the device classified as c
WithMetadata(d, size, c) ==
    IF c.res # OK THEN [d EXCEPT !.mSize = size, !.mLabel = c.label, !.res = c.res]
    ELSE Notify([d EXCEPT !.mSize = size, !.mLabel = c.label, !.res = c.res],
                "onDiskMetadataChanged", << getId, size, c.label, mSysPath >>)

\* readMetadata without "if (mSkipChange) return OK"
readMetadata_NoSkip(d, meta) ==
    WithMetadata(d, IF meta.size.ok THEN meta.size.v ELSE -1,
                 Classify(major(mDevice), meta.file))

readMetadata(d, meta) ==
    IF d.mSkipChange THEN [d EXCEPT !.res = OK]
    ELSE WithMetadata(d, IF meta.size.ok THEN meta.size.v ELSE -1,
                      Classify(major(mDevice), meta.file))

(***************************************************************************)
(* readPartitions().  A line of the tool's output is the sequence of       *)
(* tokens android::base::Split(line, " \t\n") gives.                       *)
(***************************************************************************)
tDISK == << "D", "I", "S", "K" >>
tPART == << "P", "A", "R", "T" >>
tMbr == << "m", "b", "r" >>
tGpt == << "g", "p", "t" >>

\* the switch without "case 0x0e"
IsPublicMbrType_NoLba(type) == type \in {6, 7, 11, 12, 131}

\* the "switch (type)" of the MBR branch: the types that give a public volume
IsPublicMbrType(type) == type \in {6, 7, 11, 12, 14, 131}

\* the type GUIDs that give a public volume
IsPublicGptType(typeGuid) ==
    \/ EqualsIgnoreCase(typeGuid, kGptBasicData)
    \/ EqualsIgnoreCase(typeGuid, kGptLinuxFilesystem)

\* the type GUID that gives a private volume
IsPrivateGptType(typeGuid) == EqualsIgnoreCase(typeGuid, kGptAndroidExpand)

NoDecision == [kind |-> "None", index |-> 0, partGuid |-> << >>]

\* what the PART branch decides for one line under the table kind recorded so
\* far: no volume, a public volume, or a private volume with the line's
\* partition GUID, on the partition of that index
\* the MBR branch: type is what ParseInt("0x" + type token) gives
MbrDecision(i, type) ==
    IF ~type.ok THEN NoDecision
    ELSE IF IsPublicMbrType(type.v)
    THEN [kind |-> "Public", index |-> i, partGuid |-> << >>]
    ELSE NoDecision

\* the GPT branch
GptDecision(i, typeGuid, partGuid) ==
    IF IsPublicGptType(typeGuid)
    THEN [kind |-> "Public", index |-> i, partGuid |-> << >>]
    ELSE IF IsPrivateGptType(typeGuid)
    THEN [kind |-> "Private", index |-> i, partGuid |-> partGuid]
    ELSE NoDecision

\* the PART branch once the index token is parsed as i
DecisionAt(table, split, i) ==
    IF ~i.ok THEN NoDecision
    ELSE IF table = kMbr
    THEN IF Len(split) < 3 THEN NoDecision
         ELSE MbrDecision(i.v, ParseInt(<< "0", "x" >> \o split[3],
                                        -2147483647, 2147483647))
    ELSE IF table = kGpt
    THEN IF Len(split) < 4 THEN NoDecision
         ELSE GptDecision(i.v, split[3], split[4])
    ELSE NoDecision

\* the partition number accepted from 0
Decision_FromZero(table, split, maxMinors) ==
    IF Len(split) < 2 THEN NoDecision
    ELSE DecisionAt(table, split, ParseInt(split[2], 0, maxMinors))

Decision(table, split, maxMinors) ==
    IF Len(split) < 2 THEN NoDecision
    ELSE DecisionAt(table, split, ParseInt(split[2], 1, maxMinors))

\* the table kind after a DISK line
TableAfter(table, split) ==
    IF Len(split) < 2 THEN table
    ELSE IF split[2] = tMbr THEN kMbr
    ELSE IF split[2] = tGpt THEN kGpt
    ELSE table

\* the volume a PART line's decision gives, on the partition's device
Decided(d, dec) ==
    IF dec.kind = "Public"
    THEN createPublicVolume(d, makedev(major(mDevice), minor(mDevice) + dec.index))
    ELSE IF dec.kind = "Private"
    THEN createPrivateVolume(d, makedev(major(mDevice), minor(mDevice) + dec.index),
                             dec.partGuid)
    ELSE d

\* the body of the loop over the output's lines; s is [d, table, foundParts]
ScanLine(s, split, maxMinors) ==
    IF split = << >> THEN s
    ELSE IF split[1] = tDISK THEN [s EXCEPT !.table = TableAfter(s.table, split)]
    ELSE IF split[1] = tPART
    THEN [s EXCEPT !.foundParts = TRUE,
                   !.d = Decided(s.d, Decision(s.table, split, maxMinors))]
    ELSE s

RECURSIVE ScanLines(_, _, _)
ScanLines(s, output, maxMinors) ==
    IF output = << >> THEN s
    ELSE ScanLines(ScanLine(s, Head(output), maxMinors), Tail(output), maxMinors)

\* the fallback taken only when no table kind was recorded
Fallback_OnlyUnknown(s, probe) ==
    IF s.table = kUnknown
    THEN IF probe = OK
         THEN createPublicVolume(Emit(s.d, "ReadMetadataUntrusted", probe), mDevice)
         ELSE Emit(s.d, "ReadMetadataUntrusted", probe)
    ELSE s.d

\* "Ugly last ditch effort, treat entire disk as partition"
Fallback(s, probe) ==
    IF s.table = kUnknown \/ ~s.foundParts
    THEN IF probe = OK
         THEN createPublicVolume(Emit(s.d, "ReadMetadataUntrusted", probe), mDevice)
         ELSE Emit(s.d, "ReadMetadataUntrusted", probe)
    ELSE s.d

kSgdiskPath == "/system/bin/sgdisk"
\* mDevPath, "/dev/block/vold/" + mId
mDevPath == << "/dev/block/vold/", getId >>

\* a command given to ForkExecvp: what it is for, and its arguments
Cmd(name, argv) == [cmd |-> name, argv |-> << << kSgdiskPath >> >> \o argv \o << mDevPath >>]
DumpCmd == Cmd("dump", << << "--android-dump" >> >>)

\* the early return on mSkipChange without "mSkipChange = false"
SkipFirstChange_KeepsFlag(d) == [d EXCEPT !.res = OK]

\* "if (mSkipChange) { mSkipChange = false; return OK; }"
SkipFirstChange(d) == [d EXCEPT !.mSkipChange = FALSE, !.res = OK]

\* the end of a scan that clears mJustPartitioned only when the dump succeeded
EndScan_OnSuccess(d, res) ==
    [Notify(d, "onDiskScanned", getId)
        EXCEPT !.mJustPartitioned = IF res = OK THEN FALSE ELSE @, !.res = res]

\* the end of a scan, after a failed dump as after a parsed one: disk-scanned
\* is notified and mJustPartitioned cleared
EndScan(d, res) ==
    [Notify(d, "onDiskScanned", getId) EXCEPT !.mJustPartitioned = FALSE, !.res = res]

\* env: sysfs (see getMaxMinors), dump = the tool's [res, out], probe = what
\* ReadMetadataUntrusted returns
\* readPartitions from the dump on: d has no volumes left
Scan(d, env, maxMinors) ==
    IF env.dump.res # OK
    THEN EndScan(d, env.dump.res)
    ELSE EndScan(Fallback(ScanLines([d |-> d, table |-> kUnknown, foundParts |-> FALSE],
                                    env.dump.out, maxMinors),
                          env.probe),
                 OK)

\* readPartitions once getMaxMinors has given maxMinors
ReadWith(d, env, maxMinors) ==
    IF ~maxMinors.ok THEN [d EXCEPT !.aborted = TRUE]
    ELSE IF maxMinors.v < 0 THEN [d EXCEPT !.res = ENOTSUP]
    ELSE IF d.mSkipChange THEN SkipFirstChange(d)
    ELSE Scan(Emit(destroyAllVolumes(d), "exec", DumpCmd), env, maxMinors.v)

readPartitions(d, env) == ReadWith(d, env, getMaxMinors(env.sysfs))

(***************************************************************************)
(* The partition operations.                                               *)
(***************************************************************************)
\* strtok(line, " \t\n"): the tokens of the line that are not empty
Strtok(split) == SelectSeq(split, LAMBDA t : t # << >>)

\* the table kind after the pre-scan's "DISK" branch, "continue" when the
\* line leaves it undecided; strcmp on the null pointer strtok returns for a
\* DISK line without a second token is undefined: ub is what it does, "crash"
\* (the read of address 0 faults) or "continue" (the comparison fails)
PreScanLine(tokens, ub) ==
    IF tokens = << >> THEN "continue"
    ELSE IF tokens[1] # tDISK THEN "continue"
    ELSE IF Len(tokens) < 2 THEN ub
    ELSE IF tokens[2] = tMbr THEN kMbr
    ELSE IF tokens[2] = tGpt THEN kGpt
    ELSE "continue"

RECURSIVE PreScan(_, _)
\* the loop of partitionPublic over the dump's lines: the first DISK line that
\* names mbr or gpt decides; "crash" when the process dies in it
PreScan(output, ub) ==
    IF output = << >> THEN kUnknown
    ELSE IF PreScanLine(Strtok(Head(output)), ub) = "continue"
    THEN PreScan(Tail(output), ub)
    ELSE PreScanLine(Strtok(Head(output)), ub)

\* mSkipChange set for any table the pre-scan recognises
SkipChangeAfter_AnyTable(table, skipChange) ==
    IF table # kUnknown THEN TRUE ELSE skipChange

\* "if (table == Table::kMbr) mSkipChange = true"
SkipChangeAfter(table, skipChange) == IF table = kMbr THEN TRUE ELSE skipChange

ZapCmd == Cmd("zap", << << "--zap-all" >> >>)
PublicCmd == Cmd("new", << << "--new=0:0:-0" >>, << "--typecode=0:0c00" >>,
                          << "--gpttombr=1" >> >>)

\* a partition operation that starts without "mJustPartitioned = true"
BeginPartition_NoFlag(d) == destroyAllVolumes(d)

\* a partition operation that starts without "destroyAllVolumes()"
BeginPartition_KeepsVolumes(d) ==
    Emit([d EXCEPT !.mJustPartitioned = TRUE], "mJustPartitioned", TRUE)

\* the first two statements of every partition operation:
\* "destroyAllVolumes(); mJustPartitioned = true;"
BeginPartition(d) ==
    Emit([destroyAllVolumes(d) EXCEPT !.mJustPartitioned = TRUE], "mJustPartitioned", TRUE)

\* env: dump = [res, out] of the pre-scan, ub (see PreScanLine), zap and new =
\* the exit status of the erase and of the table construction
\* "if (table == Table::kMbr) { mSkipChange = true; }"
SetSkipChange(d, table) ==
    IF table = kMbr
    THEN Emit([d EXCEPT !.mSkipChange = SkipChangeAfter(table, @)], "mSkipChange", table)
    ELSE [d EXCEPT !.mSkipChange = SkipChangeAfter(table, @)]

\* partitionPublic once the pre-scan has given table
Repartition(d, table, env) ==
    IF table = "crash" THEN [d EXCEPT !.aborted = TRUE]
    ELSE [Emit(Emit(SetSkipChange(d, table), "exec", ZapCmd), "exec", PublicCmd)
             EXCEPT !.res = env.new]

partitionPublic(d, env) ==
    Repartition(Emit(BeginPartition(d), "exec", DumpCmd),
                IF env.dump.res = OK THEN PreScan(env.dump.out, env.ub) ELSE kUnknown,
                env)

\* "if (ratio > 0) { if (ratio < 10 || ratio > 90) return -EINVAL; ... }"
RatioValid(ratio) == ~(ratio > 0 /\ (ratio < 10 \/ ratio > 90))

\* uint64_t splitMb = ((mSize / 100) * ratio) / 1024 / 1024
SplitMb(size, ratio) == TruncDiv(TruncDiv(TruncDiv(size, 100) * ratio, 1024), 1024)

\* the arguments with the private partition defined before the metadata one
MixedArgs_ExpandFirst(size, ratio, partGuid) ==
    (IF ratio > 0
     THEN << << "--new=0:0:+%dM", SplitMb(size, ratio) >>,
             << "--typecode=0:%s", kGptBasicData >>,
             << "--change-name=0:shared" >> >>
     ELSE << >>)
    \o << << "--new=0:0:-0" >>,
          << "--typecode=0:%s", kGptAndroidExpand >>,
          << "--partition-guid=0:%s", partGuid >>,
          << "--change-name=0:android_expand" >> >>
    \o << << "--new=0:0:+16M" >>,
          << "--typecode=0:%s", kGptAndroidMeta >>,
          << "--change-name=0:android_meta" >> >>

\* the arguments of the table construction of partitionMixed
MixedArgs(size, ratio, partGuid) ==
    (IF ratio > 0
     THEN << << "--new=0:0:+%dM", SplitMb(size, ratio) >>,
             << "--typecode=0:%s", kGptBasicData >>,
             << "--change-name=0:shared" >> >>
     ELSE << >>)
    \o << << "--new=0:0:+16M" >>,
          << "--typecode=0:%s", kGptAndroidMeta >>,
          << "--change-name=0:android_meta" >> >>
    \o << << "--new=0:0:-0" >>,
          << "--typecode=0:%s", kGptAndroidExpand >>,
          << "--partition-guid=0:%s", partGuid >>,
          << "--change-name=0:android_expand" >> >>

\* the key file written by partitionMixed for the identifier partGuid
PersistKey(store, keyRaw, partGuid) ==
    WriteStringToFile(store, keyRaw, BuildKeyPath(partGuid))

\* env: zap and new as above, uuid = what GenerateRandomUuid gives (Fail or
\* Ok(bytes)), key = what generate_volume_key gives, write = whether
\* WriteStringToFile succeeds
\* partitionMixed from the table construction on: the command is built and
\* run; d holds the key file
BuildTable(d, ratio, env, partGuid) ==
    IF env.new # OK
    THEN [Emit([d EXCEPT !.written = @ \cup {partGuid}],
               "exec", Cmd("new", MixedArgs(d.mSize, ratio, partGuid)))
             EXCEPT !.res = env.new]
    ELSE [Emit([d EXCEPT !.written = @ \cup {partGuid}],
               "exec", Cmd("new", MixedArgs(d.mSize, ratio, partGuid)))
             EXCEPT !.res = OK,
                    !.generated = @ \cup {[guid |-> partGuid, key |-> env.key.v]}]

\* partitionMixed that goes on when the key file could not be written
WithGuid_IgnoresWrite(d, ratio, env, partGuid) ==
    IF ~env.key.ok THEN [d EXCEPT !.res = EIO]
    ELSE IF ~env.write THEN BuildTable(d, ratio, env, partGuid)
    ELSE BuildTable(Emit([d EXCEPT !.keyStore = PersistKey(@, env.key.v, partGuid)],
                         "WriteStringToFile", << env.key.v, BuildKeyPath(partGuid) >>),
                    ratio, env, partGuid)

\* partitionMixed from the key on, for the identifier partGuid
WithGuid(d, ratio, env, partGuid) ==
    IF ~env.key.ok THEN [d EXCEPT !.res = EIO]
    ELSE IF ~env.write THEN [d EXCEPT !.res = EIO]
    ELSE IF ~RatioValid(ratio)
    THEN [Emit([d EXCEPT !.keyStore = PersistKey(@, env.key.v, partGuid)],
               "WriteStringToFile", << env.key.v, BuildKeyPath(partGuid) >>)
             EXCEPT !.res = EINVAL]
    ELSE BuildTable(Emit([d EXCEPT !.keyStore = PersistKey(@, env.key.v, partGuid)],
                         "WriteStringToFile", << env.key.v, BuildKeyPath(partGuid) >>),
                    ratio, env, partGuid)

\* partitionMixed after the erase
Zapped(d, ratio, env) ==
    IF ~env.uuid.ok THEN [d EXCEPT !.res = EIO]
    ELSE WithGuid([d EXCEPT !.issued = @ \cup {env.uuid.v}], ratio, env,
                  StrToHex(env.uuid.v))

partitionMixed(d, ratio, env) ==
    Zapped(Emit(BeginPartition(d), "exec", ZapCmd), ratio, env)

partitionPrivate(d, env) == partitionMixed(d, 0, env)

(***************************************************************************)
(* create(), destroy(), initializePartition(), unmountAll().               *)
(***************************************************************************)
\* create that reads the metadata and scans whatever the flags
Populate_IgnoresStub(d, env) ==
    [readPartitions(readMetadata(d, env.meta), env) EXCEPT !.res = OK]

\* create that scans before it reads the metadata
Populate_ScanFirst(d, env) ==
    IF isStub THEN [createStubVolume(d) EXCEPT !.res = OK]
    ELSE [readMetadata(readPartitions(d, env), env.meta) EXCEPT !.res = OK]

\* env: meta for readMetadata, and the inputs of readPartitions
\* create after "mCreated = true" and the disk-created notification
Populate(d, env) ==
    IF isStub THEN [createStubVolume(d) EXCEPT !.res = OK]
    ELSE [readPartitions(readMetadata(d, env.meta), env) EXCEPT !.res = OK]

Created(d, env) ==
    Populate(Notify([d EXCEPT !.mCreated = TRUE], "onDiskCreated", << getId, mFlags >>),
             env)

\* create without "CHECK(!mCreated)"
create_Unchecked(d, env) == Created(d, env)

create(d, env) ==
    IF d.mCreated THEN [d EXCEPT !.aborted = TRUE]
    ELSE Created(d, env)

\* destroy without "destroyAllVolumes()"
destroy_KeepsVolumes(d) ==
    IF ~d.mCreated THEN [d EXCEPT !.aborted = TRUE]
    ELSE [Notify([d EXCEPT !.mCreated = FALSE], "onDiskDestroyed", getId)
             EXCEPT !.res = OK]

\* destroy without "mCreated = false"
destroy_StaysCreated(d) ==
    IF ~d.mCreated THEN [d EXCEPT !.aborted = TRUE]
    ELSE [Notify(destroyAllVolumes(d), "onDiskDestroyed", getId) EXCEPT !.res = OK]

destroy(d) ==
    IF ~d.mCreated THEN [d EXCEPT !.aborted = TRUE]
    ELSE [Notify([destroyAllVolumes(d) EXCEPT !.mCreated = FALSE],
                 "onDiskDestroyed", getId)
             EXCEPT !.res = OK]

initializePartition(d, vol) ==
    IF ~isStub THEN [d EXCEPT !.aborted = TRUE]
    ELSE IF d.mVolumes # << >> THEN [d EXCEPT !.aborted = TRUE]
    ELSE [d EXCEPT !.mVolumes = Append(@, vol)]

RECURSIVE UnmountEach(_, _)
UnmountEach(d, vols) ==
    IF vols = << >> THEN d
    ELSE UnmountEach(Emit(d, "vol.unmount", Head(vols).device), Tail(vols))

unmountAll(d) == [UnmountEach(d, d.mVolumes) EXCEPT !.res = OK]

(***************************************************************************)
(* The inputs the environment may give.                                    *)
(***************************************************************************)
\* a device: its numbers, its sysfs path, whether it is a virtio block device
Device(ma, mi, sysPath, virtio) ==
    [mDevice |-> makedev(ma, mi), mSysPath |-> sysPath, virtioBlk |-> virtio]
pSda == << "/", "s", "y", "s", "/", "s", "d", "b" >>
pNvme == << "/", "s", "y", "s", "/", "n", "v", "m", "e", "0" >>
MmcDevice == Device(kMajorBlockMmc, 0, pSda, FALSE)
ScsiDevice == Device(kMajorBlockScsiA, 16, pSda, FALSE)
LoopDevice == Device(kMajorBlockLoop, 8, pSda, FALSE)
VirtioDevice == Device(253, 0, pSda, TRUE)
NvmeDevice == Device(259, 0, pNvme, FALSE)
UnsupportedDevice == Device(259, 0, pSda, FALSE)

\* the random partition identifiers, as bytes
GuidPool == {<< 160 + i >> : i \in 1..MaxGuids}
\* the first identifier of GuidPool
FirstGuid == << 161 >>
\* an Android-expand partition's line of a GPT dump, as sgdisk prints the
\* identifier whose bytes are raw
ExpandLine(index, raw) ==
    << tPART, index, ToLower(kGptAndroidExpand), ToUpper(StrToHex(raw)), << >> >>

lDiskMbr == << tDISK, tMbr, << >> >>
lDiskGpt == << tDISK, tGpt, << >> >>
lDiskOnly == << tDISK, << >> >>
lPart1Linux == << tPART, << "1" >>, << "8", "3" >>, << >> >>
\* " DISK mbr": the line starts with a separator
lSpaceDiskMbr == << << >>, tDISK, tMbr, << >> >>

\* the tool's exit status
ToolResults == {OK, ToolError}

RECURSIVE SeqsUpTo(_, _)
\* the sequences over S of length at most n
SeqsUpTo(S, n) ==
    IF n = 0 THEN {<< >>}
    ELSE LET shorter == SeqsUpTo(S, n - 1)
         IN  shorter \cup {Append(q, x) : q \in shorter, x \in S}

\* the dumps whose output is made of these lines, and the failed dump
NoDump == [res |-> ToolError, out |-> << >>]
DumpsOf(lines) == {NoDump} \cup {[res |-> OK, out |-> o] : o \in SeqsUpTo(lines, MaxLines)}

\* what reading the parameter files of getMaxMinors may give
SysfsReads ==
    IF major(mDevice) = kMajorBlockMmc
    THEN { [loop |-> Fail, mmc |-> Ok(<< "8", "\n" >>), mmcDeprecated |-> Fail],
           [loop |-> Fail, mmc |-> Fail, mmcDeprecated |-> Fail],
           [loop |-> Fail, mmc |-> Ok(<< "\n" >>), mmcDeprecated |-> Fail] }
    ELSE IF major(mDevice) = kMajorBlockLoop
    THEN { [loop |-> Ok(<< "8", "\n" >>), mmc |-> Fail, mmcDeprecated |-> Fail],
           [loop |-> Fail, mmc |-> Fail, mmcDeprecated |-> Fail] }
    ELSE { [loop |-> Fail, mmc |-> Fail, mmcDeprecated |-> Fail] }

\* maxMinors can be determined from these reads
NonNegative(n) == n.ok /\ n.v >= 0
Determinable(sysfs) == NonNegative(getMaxMinors(sysfs))

RECURSIVE TableOf(_, _)
\* the table kind the DISK lines of an output leave
TableOf(table, output) ==
    IF output = << >> THEN table
    ELSE TableOf(IF Head(output) # << >> /\ Head(output)[1] = tDISK
                 THEN TableAfter(table, Head(output)) ELSE table,
                 Tail(output))

\* the scan of this dump consults the whole-disk probe
Probes(dump) ==
    /\ dump.res = OK
    /\ \/ TableOf(kUnknown, dump.out) = kUnknown
       \/ ~\E i \in 1..Len(dump.out) : dump.out[i] # << >> /\ dump.out[i][1] = tPART

\* the inputs of readPartitions over these dumps.  An input the call never
\* consults is kept at one value: the dump when maxMinors cannot be
\* determined, the probe when the scan does not fall back.
ScanEnvs(dumps) ==
    {e \in [sysfs : SysfsReads, dump : dumps, probe : {OK, ENOTSUP}] :
        /\ ~Determinable(e.sysfs) => e.dump = NoDump
        /\ ~(Determinable(e.sysfs) /\ Probes(e.dump)) => e.probe = OK}

\* what the size and the metadata file of readMetadata may give
MetaOk == [size |-> Ok(1073741824),
           file |-> Ok(<< "0", "x", "0", "0", "0", "0", "0", "3", "\n" >>)]
MetaFail == [size |-> Fail, file |-> Fail]

\* the inputs of partitionPublic over these dumps; ub is consulted only when
\* the pre-scan meets a DISK line without a second token
PublicEnvs(dumps) ==
    {e \in [dump : dumps, ub : {"crash", "continue"}, zap : ToolResults,
            new : ToolResults] :
        (e.dump.res # OK \/ PreScan(e.dump.out, "crash") # "crash") => e.ub = "crash"}

\* the inputs of partitionMixed with these keys: GenerateRandomUuid gives an
\* identifier it has not given before.  What the call never consults is kept
\* at one value.
MixedEnvs(keys) ==
    {e \in [zap : ToolResults,
            uuid : {Fail} \cup {Ok(raw) : raw \in GuidPool \ issued},
            key : {Fail} \cup {Ok(key) : key \in keys},
            write : BOOLEAN, new : ToolResults] :
        /\ ~e.uuid.ok => ~e.key.ok
        /\ ~e.key.ok => e.write
        /\ ~e.write => e.new = OK}

(***************************************************************************)
(* The operations as actions.                                              *)
(***************************************************************************)
Pre == [mCreated |-> mCreated, mJustPartitioned |-> mJustPartitioned,
        mSkipChange |-> mSkipChange, mVolumes |-> mVolumes, mSize |-> mSize,
        mLabel |-> mLabel, destroyed |-> destroyed]

\* the operation that ended in r has run the partition dump of a scan
Scanned(r) == \E i \in 1..Len(r.trace) : r.trace[i].e = "exec" /\ r.trace[i].a.cmd = "dump"

PartitionOps == {"partitionPublic", "partitionPrivate", "partitionMixed"}

\* partFailed after the operation op that ended in r
PartFailedAfter(r, op) ==
    IF r.aborted THEN partFailed
    ELSE IF op \in PartitionOps THEN (IF r.res # OK THEN "yes" ELSE "no")
    ELSE IF partFailed = "yes" /\ (Scanned(r) \/ op = "initializePartition")
    THEN "rescanned"
    ELSE partFailed

\* balance after the operation op that ended in r
BalanceAfter(r, op) ==
    IF r.aborted THEN balance
    ELSE IF op = "create" THEN balance + 1
    ELSE IF op = "destroy" THEN balance - 1
    ELSE balance

\* the state after the operation c.op, called with c.in, that ended in r
Commit(r, c) ==
    /\ mCreated' = r.mCreated
    /\ mJustPartitioned' = r.mJustPartitioned
    /\ mSkipChange' = r.mSkipChange
    /\ mVolumes' = r.mVolumes
    /\ mSize' = r.mSize
    /\ mLabel' = r.mLabel
    /\ keyStore' = r.keyStore
    /\ issued' = r.issued
    /\ written' = r.written
    /\ generated' = r.generated
    /\ aborted' = r.aborted
    /\ trace' = r.trace
    /\ balance' = BalanceAfter(r, c.op)
    /\ destroyed' = (destroyed \/ (c.op = "destroy" /\ ~r.aborted))
    /\ partFailed' = PartFailedAfter(r, c.op)
    /\ call' = [c EXCEPT !.res = IF r.aborted THEN "abort" ELSE r.res]
    /\ UNCHANGED << mDevice, mSysPath, mFlags, virtioBlk, listener >>

Call(op, in) == [op |-> op, in |-> in, pre |-> Pre, res |-> OK]

\* the inputs of create: those of readMetadata and those of readPartitions
CreateEnv(meta, env) ==
    [meta |-> meta, sysfs |-> env.sysfs, dump |-> env.dump, probe |-> env.probe]

Create(metas, envs) ==
    /\ ~aborted
    /\ \E meta \in metas, env \in envs :
          Commit(create(Disk, CreateEnv(meta, env)), Call("create", CreateEnv(meta, env)))

Destroy ==
    /\ ~aborted
    /\ Commit(destroy(Disk), Call("destroy", << >>))

ReadMetadata(metas) ==
    /\ ~aborted
    /\ \E meta \in metas :
          Commit(readMetadata(Disk, meta), Call("readMetadata", meta))

ReadPartitions(envs) ==
    /\ ~aborted
    /\ \E env \in envs :
          Commit(readPartitions(Disk, env), Call("readPartitions", env))

PartitionPublic(envs) ==
    /\ ~aborted
    /\ \E env \in envs :
          Commit(partitionPublic(Disk, env), Call("partitionPublic", env))

PartitionPrivate(envs) ==
    /\ ~aborted
    /\ \E env \in envs :
          Commit(partitionPrivate(Disk, env),
                 Call("partitionPrivate", [env |-> env, ratio |-> 0]))

PartitionMixed(envs, ratios) ==
    /\ ~aborted
    /\ \E env \in envs, ratio \in ratios :
          Commit(partitionMixed(Disk, ratio, env),
                 Call("partitionMixed", [env |-> env, ratio |-> ratio]))

UnmountAll ==
    /\ ~aborted
    /\ Commit(unmountAll(Disk), Call("unmountAll", << >>))

\* the volume VolumeManager gives a stub disk
StubVolume == NewVolume("stub", makedev(0, 1), << >>)

InitializePartition ==
    /\ ~aborted
    /\ Commit(initializePartition(Disk, StubVolume), Call("initializePartition", << >>))

\* the Disk as its constructor leaves it, for one of these devices and flags
InitWith(devices, flags, listeners) ==
    /\ \E dev \in devices :
          /\ mDevice = dev.mDevice
          /\ mSysPath = dev.mSysPath
          /\ virtioBlk = dev.virtioBlk
    /\ mFlags \in flags
    /\ listener \in listeners
    /\ mCreated = FALSE
    /\ mJustPartitioned = FALSE
    /\ mSkipChange = FALSE
    /\ mVolumes = << >>
    /\ mSize = -1
    /\ mLabel = << >>
    /\ keyStore = << >>
    /\ issued = {}
    /\ written = {}
    /\ generated = {}
    /\ balance = 0
    /\ destroyed = FALSE
    /\ partFailed = "no"
    /\ aborted = FALSE
    /\ call = [op |-> "Disk", in |-> << >>, pre |-> Pre, res |-> OK]
    /\ trace = << >>

(***************************************************************************)
(* The lifecycle: every operation of a Disk, in any order, on coarse       *)
(* inputs (an MBR disk with one Linux partition, or nothing recognisable; *)
(* the erase of the partition operations succeeds).                        *)
(***************************************************************************)
\* the inputs with the erase succeeding
ZapOk(envs) == {e \in envs : e.zap = OK}
\* the inputs with which GenerateRandomUuid, when it succeeds, gives FirstGuid
FirstIssue(envs) == {e \in envs : e.uuid.ok => e.uuid.v = FirstGuid}
CoarseDumps == {NoDump, [res |-> OK, out |-> << >>],
                [res |-> OK, out |-> << lDiskMbr, lPart1Linux >>]}
CoarseKeys == {<< 17, 34 >>}
CoarseRatios == {50, 95}

Init == InitWith({MmcDevice}, {{}}, BOOLEAN)

Next ==
    \/ Create({MetaOk}, ScanEnvs(CoarseDumps))
    \/ Destroy
    \/ ReadMetadata({MetaOk})
    \/ ReadPartitions(ScanEnvs(CoarseDumps))
    \/ PartitionPublic(ZapOk(PublicEnvs({NoDump, [res |-> OK, out |-> << lDiskMbr >>],
                                         [res |-> OK, out |-> << lDiskGpt >>]})))
    \/ PartitionPrivate(FirstIssue(ZapOk(MixedEnvs(CoarseKeys))))
    \/ PartitionMixed(FirstIssue(ZapOk(MixedEnvs(CoarseKeys))), CoarseRatios)
    \/ UnmountAll
    \/ InitializePartition

Spec == Init /\ [][Next]_vars

(***************************************************************************)
(* What the last operation did, read from call and trace.                  *)
(***************************************************************************)
\* the positions of trace that hold the event e
At(e) == {i \in 1..Len(trace) : trace[i].e = e}
\* the positions of trace where the tool is run for the command name
Execs(name) == {i \in At("exec") : trace[i].a.cmd = name}
\* the positions of trace where the tool is run
AnyExec == At("exec")
\* the event at position i of trace is e, with a
Is(i, e, a) == trace[i].e = e /\ trace[i].a = a

(***************************************************************************)
(* The lifecycle flag.                                                     *)
(***************************************************************************)
\* C1: create() aborts the process (it returns no status) when the Disk is
\* created and destroy() aborts it when the Disk is not, so in every state of
\* a process that has not aborted the completed create() calls are either as
\* many as the completed destroy() calls, and the Disk is not created, or one
\* more, and the Disk is created; a create() or destroy() that does complete
\* returns OK and flips mCreated.
C1_CreateDestroyAlternate ==
    /\ ~aborted => /\ balance \in {0, 1}
                   /\ mCreated <=> balance = 1
                   /\ ~mCreated <=> balance = 0
    /\ call.op = "create" /\ call.pre.mCreated => aborted /\ call.res = "abort"
    /\ call.op = "destroy" /\ ~call.pre.mCreated => aborted /\ call.res = "abort"
    /\ call.op = "create" /\ ~aborted => ~call.pre.mCreated /\ mCreated /\ call.res = OK
    /\ call.op = "destroy" /\ ~aborted => call.pre.mCreated /\ ~mCreated /\ call.res = OK

\* create() was called on a created Disk and the process aborted
C1_Witness ==
    /\ call.op = "create"
    /\ call.pre.mCreated
    /\ aborted
    /\ balance = 1

(***************************************************************************)
(* The suppression of one scan.                                            *)
(***************************************************************************)
\* the last operation was readPartitions(), or a create() that ran it
RanReadPartitions ==
    \/ call.op = "readPartitions"
    \/ call.op = "create" /\ ~call.pre.mCreated /\ ~isStub

\* the events of trace that create, destroy or format a volume
VolumeEvents ==
    At("vol.destroy") \cup At("mVolumes.clear") \cup At("new PublicVolume")
    \cup At("new PrivateVolume") \cup At("mVolumes.push_back") \cup At("vol.create")
    \cup At("vol.format")

\* C2: when readPartitions() runs with mSkipChange set and maxMinors
\* determinable it runs no tool, creates and destroys no volume, leaves
\* mVolumes as it was, notifies no scan, clears mSkipChange and returns OK;
\* when it runs with mSkipChange clear it runs the partition dump, and leaves
\* mSkipChange clear: the call after a suppressed one is a real scan, and one
\* setting of the flag suppresses one scan.
C2_SkipChangeSuppressesOneScan ==
    RanReadPartitions /\ Determinable(call.in.sysfs) =>
        /\ ~mSkipChange
        /\ call.res = OK \/ ~call.pre.mSkipChange
        /\ call.pre.mSkipChange =>
              /\ AnyExec = {}
              /\ VolumeEvents = {}
              /\ At("onDiskScanned") = {}
              /\ mVolumes = call.pre.mVolumes
              /\ mJustPartitioned = call.pre.mJustPartitioned
              /\ call.op = "readPartitions" => trace = << >>
        /\ ~call.pre.mSkipChange => Execs("dump") # {}

\* readPartitions() was called with mSkipChange set, after a partitionPublic()
\* that found an MBR table, and returned OK
C2_Witness ==
    /\ call.op = "readPartitions"
    /\ call.pre.mSkipChange
    /\ call.pre.mJustPartitioned
    /\ Determinable(call.in.sysfs)
    /\ call.res = OK
    /\ ~mSkipChange

(***************************************************************************)
(* The end of a scan.                                                      *)
(***************************************************************************)
\* the last operation was a readPartitions() that went on to the dump
RealScan ==
    /\ call.op = "readPartitions"
    /\ Determinable(call.in.sysfs)
    /\ ~call.pre.mSkipChange

\* what C3 says but for the number of notifications
ScanEnds ==
    /\ ~mJustPartitioned
    /\ call.in.dump.res # OK =>
          /\ call.res = call.in.dump.res
          /\ mVolumes = << >>
          /\ At("new PublicVolume") \cup At("new PrivateVolume") = {}
          /\ mCreated = call.pre.mCreated

\* C3, as the code has it: when readPartitions() is called with maxMinors
\* determinable and mSkipChange clear, then on return, the dump having failed
\* or not, the call has notified disk-scanned once if a listener is
\* registered and not at all if none is, and mJustPartitioned is false; when
\* the dump failed the call returns the tool's error, mVolumes is empty, no
\* volume was instantiated and mCreated is as it was.
C3_ScanEndsNotifying ==
    RealScan => /\ Cardinality(At("onDiskScanned")) = (IF listener THEN 1 ELSE 0)
                /\ ScanEnds

\* C3 as the specification states it: exactly one disk-scanned notification
\* is emitted by the call, whether a listener is registered or not.
C3_AsStated ==
    RealScan => /\ Cardinality(At("onDiskScanned")) = 1
                /\ ScanEnds

\* a scan right after a partition operation, whose dump failed, has notified
\* the listener and cleared mJustPartitioned
C3_Witness ==
    /\ RealScan
    /\ call.pre.mJustPartitioned
    /\ call.in.dump.res # OK
    /\ listener
    /\ At("onDiskScanned") # {}
    /\ ~mJustPartitioned

(***************************************************************************)
(* The start of a partition operation.                                     *)
(***************************************************************************)
\* the first events of trace are the destruction of the volumes the Disk had,
\* in order, the emptying of mVolumes, and the setting of mJustPartitioned
StartsByClearing ==
    /\ Len(trace) >= Len(call.pre.mVolumes) + 2
    /\ \A i \in 1..Len(call.pre.mVolumes) :
          Is(i, "vol.destroy", call.pre.mVolumes[i].device)
    /\ Is(Len(call.pre.mVolumes) + 1, "mVolumes.clear", Len(call.pre.mVolumes))
    /\ Is(Len(call.pre.mVolumes) + 2, "mJustPartitioned", TRUE)

\* C4: partitionPublic(), partitionPrivate() and partitionMixed() destroy
\* every volume of the Disk and set mJustPartitioned before they run any tool
\* command, whatever the path taken afterwards (invalid ratio, failure of the
\* identifier, of the key or of its file, failure of a tool, success); when
\* they return mVolumes is empty and mJustPartitioned is true.
C4_PartitionStartsByClearing ==
    call.op \in PartitionOps =>
        /\ StartsByClearing
        /\ \A i \in AnyExec : i > Len(call.pre.mVolumes) + 2
        /\ mVolumes = << >>
        /\ mJustPartitioned

\* partitionMixed() rejected its ratio on a Disk that had a volume and whose
\* mJustPartitioned was clear
C4_Witness ==
    /\ call.op = "partitionMixed"
    /\ call.res = EINVAL
    /\ call.pre.mVolumes # << >>
    /\ ~call.pre.mJustPartitioned
    /\ mJustPartitioned
    /\ mVolumes = << >>

(***************************************************************************)
(* After a failed partition operation.                                     *)
(***************************************************************************)
\* C5, as the code has it: when a partition operation returns an error
\* mVolumes is empty, and it stays empty through readMetadata(), unmountAll(),
\* destroy(), a readPartitions() or create() that does not reach the partition
\* dump (mSkipChange set, maxMinors not determinable) and failed partition
\* operations; it stays so until the next successful partition operation or the
\* next scan that reaches the dump (readPartitions(), create()), which may
\* instantiate volumes again, or initializePartition().
C5_EmptyUntilRescan ==
    partFailed = "yes" => mVolumes = << >>

\* C5 as the specification states it: between a failed partition operation
\* and the next successful one mVolumes is empty whatever operations occur.
C5_AsStated ==
    partFailed # "no" => mVolumes = << >>

\* a created Disk with a volume was partitioned, the operation failed at the
\* table construction, and destroy() then ran: there is still no volume
C5_Witness ==
    /\ partFailed = "yes"
    /\ call.op = "destroy"
    /\ ~aborted
    /\ mVolumes = << >>

(***************************************************************************)
(* partitionPublic() over every dump of at most MaxLines lines, and the    *)
(* scans that consume mSkipChange.                                         *)
(***************************************************************************)
PreScanLines == {lDiskMbr, lDiskGpt, lDiskOnly, lSpaceDiskMbr, lPart1Linux}

InitPublic == InitWith({MmcDevice}, {{}}, {TRUE})

NextPublic ==
    \/ PartitionPublic(PublicEnvs(DumpsOf(PreScanLines)))
    \/ ReadPartitions(ScanEnvs({NoDump}))

SpecPublic == InitPublic /\ [][NextPublic]_vars

\* the line, as strtok cuts it, is a DISK line that names the table kind
Names(line, kind) ==
    /\ Len(Strtok(line)) >= 2
    /\ Strtok(line)[1] = tDISK
    /\ Strtok(line)[2] = kind

\* the first line of the dump that names a table kind names MBR
MbrRevealed(dump) ==
    /\ dump.res = OK
    /\ \E i \in 1..Len(dump.out) :
          /\ Names(dump.out[i], tMbr)
          /\ \A j \in 1..(i - 1) : ~Names(dump.out[j], tMbr) /\ ~Names(dump.out[j], tGpt)

\* C6: a partitionPublic() that returns has mSkipChange set if its pre-scan
\* revealed an MBR table, and then it was set before the erase and the table
\* construction were run; otherwise (the dump failed, no line names a table,
\* or the table is GPT) mSkipChange is what it was before the call, so false
\* if it was false; the status of the erase and of the table construction
\* (every combination is tried) has no part in it.
C6_SkipChangeOnMbr ==
    call.op = "partitionPublic" /\ ~aborted =>
        /\ mSkipChange <=> (MbrRevealed(call.in.dump) \/ call.pre.mSkipChange)
        /\ MbrRevealed(call.in.dump) =>
              \E k \in At("mSkipChange") :
                 \A i \in Execs("zap") \cup Execs("new") : k < i
        /\ Execs("zap") # {} /\ Execs("new") # {}

\* partitionPublic() found an MBR table on a Disk whose mSkipChange was clear,
\* the erase and the table construction both failed, and mSkipChange is set
C6_Witness ==
    /\ call.op = "partitionPublic"
    /\ MbrRevealed(call.in.dump)
    /\ ~call.pre.mSkipChange
    /\ call.in.zap # OK
    /\ call.in.new # OK
    /\ call.res # OK
    /\ mSkipChange

(***************************************************************************)
(* partitionMixed() over every ratio an int8_t holds.                      *)
(***************************************************************************)
Int8 == -128..127
\* the ratios tried with the tools and the key store failing
EdgeRatios == {-5, 0, 5, 9, 10, 50, 90, 91, 95}
\* the inputs with which nothing fails
Unfailing(envs) ==
    {e \in envs : e.zap = OK /\ e.uuid.ok /\ e.key.ok /\ e.write /\ e.new = OK}

InitRatio == InitWith({MmcDevice}, {{}}, {TRUE})

NextRatio ==
    \/ PartitionMixed(Unfailing(MixedEnvs(CoarseKeys)), Int8)
    \/ PartitionMixed(MixedEnvs(CoarseKeys), EdgeRatios)
    \/ PartitionPrivate(MixedEnvs(CoarseKeys))
    \/ ReadMetadata({MetaOk, MetaFail})

SpecRatio == InitRatio /\ [][NextRatio]_vars

\* C7 as the specification states it: for every ratio of partitionMixed(),
\* when the identifier, the key and the key file did not fail, a ratio that
\* is not 0 and lies outside [10,90] makes the call return the validation
\* error without running the table construction, and a ratio that is 0 or
\* lies in [10,90] makes it run the table construction.
C7_AsStated ==
    /\ call.op = "partitionMixed"
    /\ call.in.env.uuid.ok
    /\ call.in.env.key.ok
    /\ call.in.env.write
    => IF call.in.ratio # 0 /\ (call.in.ratio < 10 \/ call.in.ratio > 90)
       THEN call.res = EINVAL /\ Execs("new") = {}
       ELSE Execs("new") # {}

(***************************************************************************)
(* The keys: partitionPrivate() and partitionMixed() write them, the scan  *)
(* of a GPT dump reads them.                                               *)
(***************************************************************************)
TwoKeys == {<< 17, 34 >>, << 51, 68 >>}
\* an identifier no partition operation generates
ForeignGuid == << 178 >>
\* the lines of the dumps: a GPT disk whose Android-expand partition carries a
\* generated identifier, as sgdisk prints it (upper case) or, for the first,
\* in lower case, or a foreign one
KeyLines ==
    {lDiskGpt, ExpandLine(<< "2" >>, ForeignGuid)}
    \cup {ExpandLine(<< "1" >>, raw) : raw \in GuidPool}
    \cup {[ExpandLine(<< "3" >>, FirstGuid) EXCEPT ![4] = StrToHex(FirstGuid)]}
\* the dumps of a GPT disk
GptDumps == {dump \in DumpsOf(KeyLines) : dump.out # << >> => dump.out[1] = lDiskGpt}

InitKeys == InitWith({ScsiDevice}, {{}}, {TRUE})

\* the inputs of the partition operations with the erase succeeding; the
\* dump is read when the Disk has no volume, as after a partition operation,
\* and fails when it has some
KeyEnvs == ZapOk(MixedEnvs(TwoKeys))

NextKeys ==
    \/ PartitionPrivate(KeyEnvs)
    \/ PartitionMixed({e \in KeyEnvs : e.uuid.ok /\ e.key.ok}, {50})
    \/ ReadPartitions(ScanEnvs(IF mVolumes = << >> THEN GptDumps ELSE {NoDump}))

SpecKeys == InitKeys /\ [][NextKeys]_vars

\* the partition identifier given to the table construction cmd
GuidOf(cmd) ==
    cmd.argv[CHOOSE j \in 1..Len(cmd.argv) : cmd.argv[j][1] = "--partition-guid=0:%s"][2]

\* C8: in partitionMixed() (and partitionPrivate(), which is its ratio 0) the
\* table construction is run only after the generated key was written to the
\* key file of the normalised identifier the command gives the partition; when
\* the identifier, the key or the key file fails the call returns an error and
\* the table construction is not run.  So in every state each Android-expand
\* partition a table construction of this process has written has a key file
\* under its normalised GUID.
C8_KeyBeforeTable ==
    /\ \A g \in written :
          /\ NormalizeHex(g).ok
          /\ BuildKeyPath(NormalizeHex(g).v) \in DOMAIN keyStore
    /\ call.op \in {"partitionMixed", "partitionPrivate"} =>
          /\ ~call.in.env.uuid.ok \/ ~call.in.env.key.ok \/ ~call.in.env.write =>
                call.res = EIO /\ Execs("new") = {}
          /\ \A i \in Execs("new") :
                \E k \in At("WriteStringToFile") :
                   /\ k < i
                   /\ trace[k].a = << call.in.env.key.v,
                                      BuildKeyPath(NormalizeHex(GuidOf(trace[i].a)).v) >>
                   /\ keyStore[trace[k].a[2]] = call.in.env.key.v

\* a partitionMixed() wrote its key and ran the table construction, which
\* failed: the partition may exist, and its key does
C8_Witness ==
    /\ call.op = "partitionMixed"
    /\ Execs("new") # {}
    /\ call.res = ToolError
    /\ written # {}

\* line is a well-formed PART line of an Android-expand partition that carries
\* the identifier guid, as lower-case or as upper-case hex
Carries(line, guid) ==
    /\ Len(line) >= 4
    /\ line[1] = tPART
    /\ line[2] \in {<< "1" >>, << "2" >>, << "3" >>}
    /\ EqualsIgnoreCase(line[3], kGptAndroidExpand)
    /\ line[4] \in {guid, ToUpper(guid)}

\* the partition number of a line that Carries
NumberOf(line) == IF line[2] = << "1" >> THEN 1 ELSE IF line[2] = << "2" >> THEN 2 ELSE 3

\* C9: when readPartitions() scans a dump in which a PART line under a GPT
\* table is an Android-expand partition carrying the GUID that a successful
\* partitionPrivate() or partitionMixed() generated, the Disk has on return a
\* private volume for that partition, with that line's GUID, whose key is the
\* key that operation generated.
C9_RoundTrip ==
    RealScan /\ call.in.dump.res = OK =>
        \A j \in 1..Len(call.in.dump.out), p \in generated :
            /\ Carries(call.in.dump.out[j], p.guid)
            /\ TableOf(kUnknown, SubSeq(call.in.dump.out, 1, j - 1)) = kGpt
            => \E k \in 1..Len(mVolumes) :
                  /\ mVolumes[k].type = "private"
                  /\ mVolumes[k].key = p.key
                  /\ mVolumes[k].partGuid = call.in.dump.out[j][4]
                  /\ mVolumes[k].device =
                        makedev(major(mDevice),
                                minor(mDevice) + NumberOf(call.in.dump.out[j]))

\* the scan right after a successful partition operation found the partition
\* under its GUID in upper case and made a private volume with the key
C9_Witness ==
    /\ RealScan
    /\ call.pre.mJustPartitioned
    /\ \E k \in 1..Len(mVolumes), p \in generated :
          /\ mVolumes[k].type = "private"
          /\ mVolumes[k].key = p.key
          /\ mVolumes[k].partGuid = ToUpper(p.guid)
          /\ mVolumes[k].partGuid # p.guid

(***************************************************************************)
(* The decision of the scan for one PART line, over every type.            *)
(***************************************************************************)
\* the ways a dump may print the type byte b: two hex digits, or one when
\* that is enough, in lower or in upper case
HexForms(b) ==
    {StrToHex(<< b >>), ToUpper(StrToHex(<< b >>))}
    \cup (IF b < 16 THEN {<< kLookup[b + 1] >>, ToUpper(<< kLookup[b + 1] >>)} ELSE {})

\* a type GUID with its letters in upper and lower case by turns
MixedCase(guid) ==
    [i \in 1..Len(guid) |-> IF i % 2 = 0 THEN ToLowerChar(guid[i]) ELSE ToUpperChar(guid[i])]
\* a type GUID with its last digit changed
NearMiss(guid) == [guid EXCEPT ![Len(guid)] = "0"]

\* the type GUIDs of the GPT lines
TypeGuids ==
    UNION {{g, ToLower(g), MixedCase(g), NearMiss(g), SubSeq(g, 1, Len(g) - 1)} :
              g \in {kGptBasicData, kGptLinuxFilesystem, kGptAndroidMeta,
                      kGptAndroidExpand}}
    \cup {<< >>, << "8", "3" >>}

\* "PART 1 <type>" and "PART 1 <typeGuid> <partGuid>"
MbrPart(tok) == << tPART, << "1" >>, tok, << >> >>
GptPart(typeGuid, partGuid) == << tPART, << "1" >>, typeGuid, partGuid, << >> >>
\* the partition GUID of the GPT lines
SomeGuid == << "A", "1", "B", "2" >>

\* the dumps of one DISK line and one PART line
TypeDumps ==
    {[res |-> OK, out |-> << disk, part >>] :
        disk \in {lDiskMbr, lDiskGpt},
        part \in {MbrPart(tok) : tok \in UNION {HexForms(b) : b \in 0..255}}
                 \cup {GptPart(t, SomeGuid) : t \in TypeGuids}}

InitScan == InitWith({ScsiDevice}, {{}}, {TRUE})

\* the first scan of the Disk reads one of the dumps; the dump fails afterwards
NextScan ==
    \/ ReadPartitions(ScanEnvs(IF call.op = "Disk" THEN TypeDumps ELSE {NoDump}))
    \/ UnmountAll

SpecScan == InitScan /\ [][NextScan]_vars

\* the device of partition 1
Part1 == makedev(major(mDevice), minor(mDevice) + 1)
\* the scan made no volume
NoneMade == At("new PublicVolume") = {} /\ At("createPrivateVolume") = {}
\* the scan made one volume, public, on partition 1
PublicMade ==
    /\ \E i \in At("new PublicVolume") : trace[i].a = Part1
    /\ Cardinality(At("new PublicVolume")) = 1
    /\ At("createPrivateVolume") = {}
    /\ Len(mVolumes) = 1 /\ mVolumes[1].type = "public" /\ mVolumes[1].device = Part1
\* the scan asked for one volume, private, on partition 1 with partGuid
PrivateMade(partGuid) ==
    /\ \E i \in At("createPrivateVolume") : trace[i].a = << Part1, partGuid >>
    /\ Cardinality(At("createPrivateVolume")) = 1
    /\ At("new PublicVolume") = {}

\* the two GUIDs are equal but for the case of their letters
SameGuid(a, b) == ToUpper(a) = ToUpper(b)

\* C10: the scan of a dump made of a DISK line and a well-formed PART line
\* decides by the table kind and the type token alone.  Under MBR the
\* bytes 0x06, 0x07, 0x0b, 0x0c, 0x0e, 0x83 give a public volume and every
\* other byte none; under GPT a type GUID equal but for case to the
\* basic-data or the Linux-filesystem GUID gives a public volume, one equal
\* to the Android-expand GUID a private volume with the line's partition
\* GUID, and any other (the Android-meta GUID, a GUID that differs by a
\* digit, a shorter one, an MBR type) none.
C10_DecisionByType ==
    call.op = "readPartitions" /\ call.in.dump \in TypeDumps =>
        /\ \A b \in 0..255 : \A tok \in HexForms(b) :
              call.in.dump.out = << lDiskMbr, MbrPart(tok) >> =>
                 IF b \in {6, 7, 11, 12, 14, 131} THEN PublicMade ELSE NoneMade
        /\ \A t \in TypeGuids \cup UNION {HexForms(b) : b \in 0..255} :
              call.in.dump.out \in {<< lDiskGpt, GptPart(t, SomeGuid) >>,
                                    << lDiskGpt, MbrPart(t) >>} =>
                 IF SameGuid(t, kGptBasicData) \/ SameGuid(t, kGptLinuxFilesystem)
                 THEN PublicMade
                 ELSE IF SameGuid(t, kGptAndroidExpand)
                 THEN PrivateMade(call.in.dump.out[2][4])
                 ELSE NoneMade

\* under GPT the Android-expand GUID in mixed case gave a private volume with
\* the line's partition GUID
C10_Witness ==
    /\ call.op = "readPartitions"
    /\ call.in.dump.res = OK
    /\ call.in.dump.out = << lDiskGpt, GptPart(MixedCase(kGptAndroidExpand), SomeGuid) >>
    /\ PrivateMade(SomeGuid)


(***************************************************************************)
(* The scan over the output of the partition dump: every output of at most *)
(* MaxLines lines without a table, and every output made of a table line   *)
(* and at most MaxLines partition lines, on a Disk that was just           *)
(* partitioned or not, with or without the key of its private partition.   *)
(***************************************************************************)
lDiskBad == << tDISK, << "x", "y", "z" >>, << >> >>
\* "PART" alone, and "PART" with an empty partition number
lPartBare == << tPART >>
lPartNoIndex == << tPART, << >> >>
\* a line that is neither a DISK nor a PART line, and an empty line
lJunk == << << "G", "P", "T" >>, << >> >>
lEmpty == << << >> >>

FallbackLines == {lDiskMbr, lDiskOnly, lDiskBad, lPart1Linux, lPartBare, lJunk, lEmpty}
FallbackDumps == DumpsOf(FallbackLines)

\* "PART <index> <tokens>"
PartLine(index, tokens) == << tPART, index >> \o tokens \o << << >> >>
\* the PART lines of an MBR output that give a public volume, with the
\* partition number they carry: in decimal, in hexadecimal, the largest
MbrPublic ==
    { [line |-> PartLine(<< "1" >>, << << "8", "3" >> >>), index |-> 1],
      [line |-> PartLine(<< "2" >>, << << "0", "7" >> >>), index |-> 2],
      [line |-> PartLine(<< "0", "x", "3" >>, << << "0", "c" >> >>), index |-> 3],
      [line |-> PartLine(<< "8" >>, << << "0", "E" >> >>), index |-> 8] }
\* the PART lines of an MBR output that give none: a number that is too
\* large, too small or no number, a type that is not public or no type, and
\* the lines that lack tokens
MbrNone ==
    { PartLine(<< "9" >>, << << "8", "3" >> >>),
      PartLine(<< "0" >>, << << "8", "3" >> >>),
      PartLine(<< "x" >>, << << "8", "3" >> >>),
      PartLine(<< "4" >>, << << "8", "2" >> >>),
      << tPART, << "5" >> >>, lPartBare, lPartNoIndex }
\* the PART lines of a GPT output that give a public volume
GptPublic ==
    { [line |-> PartLine(<< "1" >>, << ToLower(kGptBasicData), SomeGuid >>), index |-> 1],
      [line |-> PartLine(<< "2" >>, << kGptLinuxFilesystem, SomeGuid >>), index |-> 2] }
\* the Android-expand lines of a GPT output, with the partition GUID they
\* carry in lower-case hex: the first identifier GenerateRandomUuid may give,
\* and one it never gives
GptPrivate ==
    { [line |-> ExpandLine(<< "3" >>, FirstGuid), index |-> 3, hex |-> << "a", "1" >>],
      [line |-> ExpandLine(<< "4" >>, ForeignGuid), index |-> 4, hex |-> << "b", "2" >>] }
\* an Android-expand line whose partition GUID is no hex text
lExpandBadGuid == PartLine(<< "5" >>, << kGptAndroidExpand, << "X", "Y", "Z" >> >>)
\* the PART lines of a GPT output that give none
GptNone ==
    { lExpandBadGuid,
      << tPART, << "6" >>, kGptAndroidExpand >>,
      PartLine(<< "7" >>, << kGptAndroidMeta, SomeGuid >>),
      PartLine(<< "9" >>, << kGptBasicData, SomeGuid >>) }

\* the outputs made of a table line and at most MaxLines PART lines
TableDumps ==
    {[res |-> OK, out |-> << lDiskMbr >> \o o] :
        o \in SeqsUpTo({c.line : c \in MbrPublic} \cup MbrNone, MaxLines)}
    \cup {[res |-> OK, out |-> << lDiskGpt >> \o o] :
        o \in SeqsUpTo({c.line : c \in GptPublic \cup GptPrivate} \cup GptNone, MaxLines)}

\* the state in which a scan is given every output: a Disk without volumes
\* whose last operation was not a scan and destroyed no volume
Unscanned ==
    /\ mVolumes = << >>
    /\ call.pre.mVolumes = << >>
    /\ call.op # "readPartitions"

InitParse == InitWith({MmcDevice}, {{}}, BOOLEAN)

NextParse ==
    \/ ReadPartitions(ScanEnvs(IF Unscanned THEN FallbackDumps \cup TableDumps
                                    ELSE CoarseDumps))
    \/ PartitionPrivate(Unfailing(MixedEnvs(CoarseKeys)))
    \/ UnmountAll

SpecParse == InitParse /\ [][NextParse]_vars

\* a DISK line of the output names a table kind
KindRecorded(out) ==
    \E i \in 1..Len(out) :
        /\ Len(out[i]) >= 2
        /\ out[i][1] = tDISK
        /\ out[i][2] \in {tMbr, tGpt}
\* a line of the output is a partition record
PartFound(out) == \E i \in 1..Len(out) : Len(out[i]) >= 1 /\ out[i][1] = tPART
\* the last operation was a scan whose dump succeeded
ParsedScan == RealScan /\ call.in.dump.res = OK
\* the Disk has one volume, public, on the raw device, made by this scan
WholeDiskVolume ==
    /\ Len(mVolumes) = 1
    /\ mVolumes[1].type = "public"
    /\ mVolumes[1].device = mDevice
    /\ mVolumes[1].created
    /\ Cardinality(At("new PublicVolume")) = 1
    /\ At("new PrivateVolume") = {}
    /\ \A i \in At("new PublicVolume") :
          /\ trace[i].a = mDevice
          /\ \E k \in At("ReadMetadataUntrusted") : k < i

\* C11: a scan whose dump succeeded probes the whole disk exactly when no
\* DISK line of the output named a table kind or the output has no PART line,
\* and then once, after the lines were read.  When the probe recognises a
\* filesystem the scan makes one public volume, on the raw device, and it is
\* the only volume of the Disk on return; when it does not the Disk has no
\* volume on return.  An output without DISK and PART lines and a successful
\* probe give that one public volume on the raw device.
C11_FallbackProbe ==
    ParsedScan =>
        /\ At("ReadMetadataUntrusted") # {} <=>
              (~KindRecorded(call.in.dump.out) \/ ~PartFound(call.in.dump.out))
        /\ Cardinality(At("ReadMetadataUntrusted")) <= 1
        /\ \A k \in At("ReadMetadataUntrusted") :
              /\ trace[k].a = call.in.probe
              /\ IF call.in.probe = OK THEN WholeDiskVolume ELSE mVolumes = << >>
        /\ /\ ~\E i \in 1..Len(call.in.dump.out) :
                  \E j \in 1..Len(call.in.dump.out[i]) :
                      call.in.dump.out[i][j] \in {tDISK, tPART}
           /\ call.in.probe = OK
           => WholeDiskVolume

\* the output named an MBR table but no partition, the probe recognised a
\* filesystem, and the Disk has its one public volume on the raw device
C11_Witness ==
    /\ ParsedScan
    /\ call.in.dump.out = << lDiskMbr >>
    /\ call.in.probe = OK
    /\ WholeDiskVolume

\* the device of partition i
PartDevice(i) == makedev(major(mDevice), minor(mDevice) + i)
\* what a volume is: its type and its device
Shape(vol) == [type |-> vol.type, device |-> vol.device]
\* the key of the partition with this GUID is stored: the partition
\* operation that generated the GUID succeeded
Loadable(hex) == \E p \in generated : p.guid = hex

\* the volumes the PART line is to give under the table kind: one or none
Expected(kind, line) ==
    IF kind = tMbr /\ \E c \in MbrPublic : c.line = line
    THEN << [type |-> "public",
             device |-> PartDevice((CHOOSE c \in MbrPublic : c.line = line).index)] >>
    ELSE IF kind = tGpt /\ \E c \in GptPublic : c.line = line
    THEN << [type |-> "public",
             device |-> PartDevice((CHOOSE c \in GptPublic : c.line = line).index)] >>
    ELSE IF kind = tGpt /\ \E c \in GptPrivate : c.line = line /\ Loadable(c.hex)
    THEN << [type |-> "private",
             device |-> PartDevice((CHOOSE c \in GptPrivate : c.line = line).index)] >>
    ELSE << >>

RECURSIVE ExpectedAll(_, _)
\* the volumes the PART lines are to give, in the order of the lines
ExpectedAll(kind, lines) ==
    IF lines = << >> THEN << >>
    ELSE Expected(kind, Head(lines)) \o ExpectedAll(kind, Tail(lines))

\* the output is a table line followed by PART lines, at least one
Headed(out) ==
    /\ Len(out) >= 2
    /\ out[1] \in {lDiskMbr, lDiskGpt}
    /\ \A i \in 2..Len(out) : out[i][1] = tPART

\* C12: after the scan of an output made of a line that names the table and
\* of PART lines (at least one: without any the scan falls back to the whole
\* disk, C11), the Disk owns, in the order of the lines, one volume for
\* each PART line whose partition number parses to an integer in
\* [1, maxMinors] (8 here) and whose type gives a public volume or a private
\* volume whose key is stored, on the device (major, minor + number) - and no
\* other volume.  A PART line whose number does not parse or is out of range,
\* or that lacks tokens, gives no volume; the lines after it are read as if it
\* were not there, and the scan returns OK.
C12_VolumesInLineOrder ==
    ParsedScan /\ Headed(call.in.dump.out) =>
        /\ call.res = OK
        /\ [i \in 1..Len(mVolumes) |-> Shape(mVolumes[i])]
              = ExpectedAll(call.in.dump.out[1][2], Tail(call.in.dump.out))
        /\ \A i \in 1..Len(mVolumes) : mVolumes[i].created

\* "DISK mbr", "PART 2 07", "PART 1 83": two public volumes, on partition 2
\* and then on partition 1
C12_Witness ==
    /\ ParsedScan
    /\ call.in.dump.out = << lDiskMbr, PartLine(<< "2" >>, << << "0", "7" >> >>),
                             PartLine(<< "1" >>, << << "8", "3" >> >>) >>
    /\ Len(mVolumes) = 2
    /\ Shape(mVolumes[1]) = [type |-> "public", device |-> makedev(179, 2)]
    /\ Shape(mVolumes[2]) = [type |-> "public", device |-> makedev(179, 1)]

\* the positions of trace where a volume is instantiated, and its device
News == At("new PublicVolume") \cup At("new PrivateVolume")
DeviceAt(i) == IF trace[i].e = "new PublicVolume" THEN trace[i].a ELSE trace[i].a[1]
\* position p of trace and the next ones append the volume on dev to
\* mVolumes, tag it and create it
AppendedAt(p, dev) ==
    /\ p + 2 <= Len(trace)
    /\ Is(p, "mVolumes.push_back", dev)
    /\ Is(p + 1, "vol.setDiskId", << dev, getId >>)
    /\ \/ Is(p + 2, "vol.create", dev)
       \/ /\ p + 3 <= Len(trace)
          /\ trace[p + 2].e = "vol.setPartGuid"
          /\ Is(p + 3, "vol.create", dev)
\* the volume instantiated at position i is silently formatted, then appended
FormattedAt(i, dev) ==
    /\ i + 6 <= Len(trace)
    /\ Is(i + 1, "vol.setSilent", << dev, TRUE >>)
    /\ Is(i + 2, "vol.create", dev)
    /\ Is(i + 3, "vol.format", << dev, "auto" >>)
    /\ Is(i + 4, "vol.destroy", dev)
    /\ Is(i + 5, "vol.setSilent", << dev, FALSE >>)
    /\ AppendedAt(i + 6, dev)

\* C15: mJustPartitioned is true exactly when a partition operation was
\* called since the last scan that reached the dump (after any operation it
\* is true if the operation was a partition operation, false if it was a scan
\* that reached the dump, and what it was otherwise; it is false at first).
\* A scan that starts with it set formats every volume it instantiates -
\* setSilent(true), create, format("auto"), destroy, setSilent(false) - before
\* appending and creating it; a scan that starts with it clear formats none
\* and appends each at once.  The volumes of the Disk after a scan are created
\* and not silent.
C15_FormatIffJustPartitioned ==
    /\ ~aborted =>
          mJustPartitioned =
             (IF call.op = "Disk" THEN FALSE
              ELSE IF call.op \in PartitionOps THEN TRUE
              ELSE IF Execs("dump") # {} THEN FALSE
              ELSE call.pre.mJustPartitioned)
    /\ RealScan =>
          /\ \A i \in News :
                IF call.pre.mJustPartitioned
                THEN FormattedAt(i, DeviceAt(i))
                ELSE AppendedAt(i + 1, DeviceAt(i))
          /\ ~call.pre.mJustPartitioned =>
                At("vol.format") \cup At("vol.setSilent") = {}
          /\ Cardinality(At("vol.format")) =
                (IF call.pre.mJustPartitioned THEN Cardinality(News) ELSE 0)
          /\ Len(mVolumes) = Cardinality(News)
          /\ \A k \in 1..Len(mVolumes) :
                /\ mVolumes[k].created
                /\ ~mVolumes[k].silent
                /\ mVolumes[k].formatted = call.pre.mJustPartitioned

\* the scan after partitionPrivate() found the private partition and a
\* public one and formatted both
C15_Witness ==
    /\ ParsedScan
    /\ call.pre.mJustPartitioned
    /\ Len(mVolumes) = 2
    /\ mVolumes[1].type = "private" /\ mVolumes[1].formatted /\ mVolumes[1].created
    /\ mVolumes[2].type = "public" /\ mVolumes[2].formatted /\ ~mVolumes[2].silent
    /\ ~mJustPartitioned

\* line is an Android-expand line that is to give no volume: its partition
\* GUID is no hex text, or no key is stored for it
Keyless(line) ==
    \/ line = lExpandBadGuid
    \/ \E c \in GptPrivate : c.line = line /\ ~Loadable(c.hex)
\* the partition number of such a line
KeylessIndex(line) ==
    IF line = lExpandBadGuid THEN 5 ELSE (CHOOSE c \in GptPrivate : c.line = line).index

\* what C16 says but for the disk-scanned notification
KeylessSkipped ==
    /\ call.res = OK
    /\ ~mJustPartitioned
    /\ \A j \in 2..Len(call.in.dump.out) :
          Keyless(call.in.dump.out[j]) =>
             /\ \A k \in 1..Len(mVolumes) :
                   mVolumes[k].device # PartDevice(KeylessIndex(call.in.dump.out[j]))
             /\ \A i \in News : DeviceAt(i) # PartDevice(KeylessIndex(call.in.dump.out[j]))
             /\ \A i \in At("mVolumes.push_back") \cup At("vol.create") :
                   trace[i].a # PartDevice(KeylessIndex(call.in.dump.out[j]))
             /\ \A i \in At("vol.format") :
                   trace[i].a[1] # PartDevice(KeylessIndex(call.in.dump.out[j]))
    /\ [i \in 1..Len(mVolumes) |-> Shape(mVolumes[i])]
          = ExpectedAll(tGpt, Tail(call.in.dump.out))
    /\ \A k \in 1..Len(mVolumes) :
          mVolumes[k].type = "private" =>
             /\ NormalizeHex(mVolumes[k].partGuid).ok
             /\ BuildKeyPath(NormalizeHex(mVolumes[k].partGuid).v) \in DOMAIN keyStore
             /\ mVolumes[k].key = keyStore[BuildKeyPath(NormalizeHex(mVolumes[k].partGuid).v)]

\* the last operation scanned a GPT output with PART lines
GptScan ==
    /\ ParsedScan
    /\ Headed(call.in.dump.out)
    /\ call.in.dump.out[1] = lDiskGpt

\* C16, as the code has it: the scan of a GPT output makes no volume for an
\* Android-expand line whose partition GUID cannot be normalised or has no
\* stored key - none is instantiated, formatted or appended for its device -
\* and goes on: the other lines give their volumes, in order, the scan
\* returns OK, clears mJustPartitioned and, at its end, notifies disk-scanned
\* if a listener is registered.  Every private volume of the Disk has the key
\* stored under its normalised partition GUID.
C16_KeylessSkipped ==
    GptScan =>
        /\ KeylessSkipped
        /\ Cardinality(At("onDiskScanned")) = (IF listener THEN 1 ELSE 0)
        /\ \A i \in At("onDiskScanned") : i = Len(trace)

\* C16 as the specification states it: the scan ends with the disk-scanned
\* notification, a listener being registered or not.
C16_AsStated ==
    GptScan =>
        /\ KeylessSkipped
        /\ Cardinality(At("onDiskScanned")) = 1
        /\ \A i \in At("onDiskScanned") : i = Len(trace)

\* a GPT output whose first partition has a GUID that is no hex text and
\* whose second has a stored key: the Disk has the second alone
C16_Witness ==
    /\ GptScan
    /\ listener
    /\ call.in.dump.out = << lDiskGpt, lExpandBadGuid, ExpandLine(<< "3" >>, FirstGuid) >>
    /\ Len(mVolumes) = 1
    /\ mVolumes[1].type = "private"
    /\ mVolumes[1].device = PartDevice(3)
    /\ At("onDiskScanned") # {}

(***************************************************************************)
(* The lifecycle of stub and other disks: create(), destroy(),             *)
(* initializePartition() and the scan, in any order.                       *)
(***************************************************************************)
\* an MBR output with two partitions
TwoPartDump ==
    [res |-> OK, out |-> << lDiskMbr, lPart1Linux, PartLine(<< "2" >>, << << "0", "7" >> >>) >>]

InitStub == InitWith({MmcDevice}, {{}, {"kStub"}}, BOOLEAN)

NextStub ==
    \/ Create({MetaOk, MetaFail}, ScanEnvs(CoarseDumps))
    \/ Destroy
    \/ InitializePartition
    \/ ReadPartitions(ScanEnvs(CoarseDumps \cup {TwoPartDump}))

SpecStub == InitStub /\ [][NextStub]_vars

\* the last operation was create() on a Disk that was not created; on a Disk
\* that scans, the parameter file of getMaxMinors(), when it could be read,
\* held a number (as the kernel writes it; std::stoi throws otherwise)
CreateCalled ==
    /\ call.op = "create"
    /\ ~call.pre.mCreated
    /\ isStub \/ getMaxMinors(call.in.sysfs).ok
\* the last operation was destroy() on a created Disk
DestroyCalled == call.op = "destroy" /\ call.pre.mCreated
\* the last operation returned OK
Succeeded == ~aborted /\ call.res = OK

\* C13, as the code has it: destroy() on a created Disk succeeds and leaves
\* it not created and without volumes, any number of times; create() on a
\* Disk that is not created - never created, or destroyed - succeeds on a
\* Disk that is not a stub; on a stub Disk it succeeds only when the Disk
\* holds exactly one volume, so create() right after destroy() is a fatal
\* assertion there.
C13_RecreateUnlessStub ==
    /\ DestroyCalled => Succeeded /\ ~mCreated /\ mVolumes = << >>
    /\ CreateCalled /\ ~isStub => Succeeded /\ mCreated
    /\ CreateCalled /\ isStub =>
          IF Len(call.pre.mVolumes) = 1 THEN Succeeded /\ mCreated ELSE aborted

\* C13 as the specification states it: on any Disk, create() and destroy()
\* called by turns all succeed and the Disk has no volume after each
\* destroy().  (A stub Disk is given its volume before it is first created.)
C13_AsStated ==
    /\ DestroyCalled => Succeeded /\ ~mCreated /\ mVolumes = << >>
    /\ CreateCalled /\ (~isStub \/ Len(call.pre.mVolumes) = 1 \/ call.pre.destroyed)
          => Succeeded /\ mCreated

\* the second destroy() of a Disk that is not a stub succeeded, and destroyed
\* the volumes the second create() had made
C13_Witness ==
    /\ DestroyCalled
    /\ ~isStub
    /\ call.pre.destroyed
    /\ call.pre.mVolumes # << >>
    /\ Succeeded
    /\ mVolumes = << >>

\* C14, as the code has it: destroy() leaves the Disk not created, and no
\* operation but create() makes a Disk created; create() on a destroyed Disk
\* is not refused: it runs as on a new one and leaves the Disk created.
C14_OnlyCreateRecreates ==
    /\ call.op = "destroy" /\ ~aborted => destroyed /\ ~mCreated
    /\ call.op \notin {"create", "Disk"} /\ ~call.pre.mCreated => ~mCreated
    /\ call.op = "create" /\ call.pre.destroyed /\ ~aborted =>
          /\ ~call.pre.mCreated
          /\ mCreated
          /\ call.res = OK

\* C14 as the specification states it: a Disk on which destroy() has
\* returned is never created again.
C14_AsStated == destroyed => ~mCreated

\* create() ran on a destroyed Disk and left it created, with a volume
C14_Witness ==
    /\ call.op = "create"
    /\ call.pre.destroyed
    /\ ~aborted
    /\ mCreated
    /\ mVolumes # << >>

\* the devices of the volumes of type stub
Stubs(vols) == {vols[i].device : i \in {j \in 1..Len(vols) : vols[j].type = "stub"}}

\* C20: create() on a stub Disk that holds exactly one volume reads no
\* metadata (mSize and mLabel are as they were), runs no tool, instantiates no
\* volume and leaves the Disk with that one volume, created; on a stub Disk
\* that holds no volume or several it is a fatal assertion.  A volume of
\* type stub enters mVolumes by initializePartition() alone, which is a fatal
\* assertion on a Disk that is not a stub or that has a volume.
C20_StubCreate ==
    /\ call.op = "create" /\ isStub /\ ~call.pre.mCreated =>
          IF Len(call.pre.mVolumes) = 1
          THEN /\ Succeeded /\ mCreated
               /\ AnyExec = {}
               /\ At("new PublicVolume") \cup At("new PrivateVolume")
                     \cup At("ReadMetadataUntrusted") \cup At("vol.destroy") = {}
               /\ mSize = call.pre.mSize /\ mLabel = call.pre.mLabel
               /\ mVolumes = << [call.pre.mVolumes[1] EXCEPT !.diskId = getId,
                                                             !.created = TRUE] >>
               /\ \E i \in At("vol.create") : trace[i].a = mVolumes[1].device
          ELSE aborted
    /\ call.op = "initializePartition" =>
          /\ aborted <=> (~isStub \/ call.pre.mVolumes # << >>)
          /\ ~aborted => mVolumes = << StubVolume >>
    /\ Stubs(mVolumes) \ Stubs(call.pre.mVolumes) # {} => call.op = "initializePartition"
    /\ ~isStub => Stubs(mVolumes) = {}

\* a stub Disk given its volume was created, whatever the metadata and the
\* dump would have been
C20_Witness ==
    /\ call.op = "create"
    /\ isStub
    /\ ~aborted
    /\ call.in.meta = MetaFail
    /\ Len(mVolumes) = 1
    /\ mVolumes[1].type = "stub"
    /\ mVolumes[1].created

(***************************************************************************)
(* Metadata and creation on every class of device: MMC, SCSI, loop,        *)
(* virtio, NVMe and a device of no supported class.                        *)
(***************************************************************************)
\* a metadata file that holds no number
MetaText == [size |-> Ok(1073741824), file |-> Ok(<< "x", "\n" >>)]
Metas == {MetaOk, MetaFail, MetaText}
MbrOrNothing == {NoDump, [res |-> OK, out |-> << lDiskMbr >>]}

InitDevices ==
    InitWith({MmcDevice, ScsiDevice, LoopDevice, VirtioDevice, NvmeDevice, UnsupportedDevice},
             {{}}, BOOLEAN)

NextDevices ==
    \/ Create(Metas, ScanEnvs(CoarseDumps))
    \/ Destroy
    \/ ReadMetadata(Metas)
    \/ ReadPartitions(ScanEnvs(CoarseDumps))
    \/ PartitionPublic(ZapOk(PublicEnvs(MbrOrNothing)))

SpecDevices == InitDevices /\ [][NextDevices]_vars

\* the size readMetadata leaves when GetBlockDevSize gives size
SizeRead(size) == IF size.ok THEN size.v ELSE -1
\* the positions of trace where the scan acts: it destroys the volumes, runs
\* the tool, makes volumes, notifies disk-scanned
ScanSteps ==
    At("vol.destroy") \cup At("mVolumes.clear") \cup At("exec") \cup News
        \cup At("mVolumes.push_back") \cup At("onDiskScanned")
\* the metadata read of the last operation notified, at position p of trace,
\* exactly if it classified the device and a listener is registered
MetadataNotifiedAt(p, classified) ==
    At("onDiskMetadataChanged") = (IF classified /\ listener THEN {p} ELSE {})
\* what the metadata read of create() leaves in mSize and mLabel
MetadataRead ==
    IF call.pre.mSkipChange
    THEN /\ mSize = call.pre.mSize
         /\ mLabel = call.pre.mLabel
         /\ At("onDiskMetadataChanged") = {}
    ELSE /\ mSize = SizeRead(call.in.meta.size)
         /\ mLabel = Classify(major(mDevice), call.in.meta.file).label
         /\ MetadataNotifiedAt(IF listener THEN 2 ELSE 1,
                               Classify(major(mDevice), call.in.meta.file).res = OK)
\* what the scan of create() does, after the metadata read
ScanRun ==
    /\ \A i \in ScanSteps : \A j \in At("onDiskCreated") \cup At("onDiskMetadataChanged") : j < i
    /\ mSkipChange = (call.pre.mSkipChange /\ ~Determinable(call.in.sysfs))
    /\ (Execs("dump") # {}) = (Determinable(call.in.sysfs) /\ ~call.pre.mSkipChange)
    /\ Execs("dump") # {} =>
          /\ At("mVolumes.clear") # {}
          /\ Cardinality(At("onDiskScanned")) = (IF listener THEN 1 ELSE 0)
          /\ \A c \in At("mVolumes.clear") :
                Cardinality({i \in At("vol.destroy") : i < c}) = Len(call.pre.mVolumes)
\* what C17 says but for the disk-created notification
CreatedWhatever ==
    /\ Succeeded
    /\ mCreated
    /\ At("onDiskDestroyed") = {}
    /\ MetadataRead
    /\ ScanRun

\* C17, as the code has it: create() on a Disk that is not a stub and not
\* created notifies disk-created first if a listener is registered, then
\* reads the metadata (mSize and mLabel are what readMetadata() leaves, with
\* its notification next in the trace when the device is classified), then
\* scans (every step of the scan comes after), and returns OK with mCreated
\* set whatever the two steps gave: an unsupported major, an unreadable
\* metadata file, an undeterminable maxMinors, a failed dump.
C17_CreateRunsBoth ==
    CreateCalled /\ ~isStub =>
        /\ CreatedWhatever
        /\ At("onDiskCreated") = (IF listener THEN {1} ELSE {})

\* C17 as the specification states it: disk-created is notified first, a
\* listener being registered or not.
C17_AsStated ==
    CreateCalled /\ ~isStub =>
        /\ CreatedWhatever
        /\ At("onDiskCreated") = {1}

\* create() on a device of no supported class, whose dump failed: the Disk is
\* created, without label or volume
C17_Witness ==
    /\ CreateCalled
    /\ listener
    /\ mDevice = UnsupportedDevice.mDevice /\ mSysPath = pSda /\ ~virtioBlk
    /\ Succeeded
    /\ mCreated
    /\ mLabel = << >>
    /\ mVolumes = << >>
    /\ Is(1, "onDiskCreated", << getId, mFlags >>)

\* what C18 says but for the metadata-changed notification
MetadataFrame ==
    /\ ~aborted
    /\ mSkipChange = call.pre.mSkipChange
    /\ mJustPartitioned = call.pre.mJustPartitioned
    /\ mCreated = call.pre.mCreated
    /\ mVolumes = call.pre.mVolumes
    /\ call.res = OK <=> (call.pre.mSkipChange \/ Classify(major(mDevice), call.in.file).res = OK)
    /\ call.pre.mSkipChange =>
          /\ mSize = call.pre.mSize
          /\ mLabel = call.pre.mLabel
          /\ trace = << >>
    /\ ~call.pre.mSkipChange =>
          /\ mSize = SizeRead(call.in.size)
          /\ call.res # OK => trace = << >>
          /\ Len(trace) <= 1

\* C18, as the code has it: readMetadata() with mSkipChange set returns OK
\* and changes nothing - mSize, mLabel, the flags, the volumes - and notifies
\* nothing.  With mSkipChange clear it notifies metadata-changed exactly
\* when it classified the device (it returns OK) and a listener is
\* registered, never when it returns an error; it never writes mSkipChange,
\* mJustPartitioned, mCreated or mVolumes.
C18_MetadataFrame ==
    call.op = "readMetadata" =>
        /\ MetadataFrame
        /\ ~call.pre.mSkipChange => MetadataNotifiedAt(1, call.res = OK)

\* C18 as the specification states it: with mSkipChange clear the
\* notification is emitted exactly when the device is classified, a listener
\* being registered or not.
C18_AsStated ==
    call.op = "readMetadata" =>
        /\ MetadataFrame
        /\ ~call.pre.mSkipChange => At("onDiskMetadataChanged") = (IF call.res = OK THEN {1} ELSE {})

\* readMetadata() right after partitionPublic() met an MBR table: nothing is
\* read, though the size could be
C18_Witness ==
    /\ call.op = "readMetadata"
    /\ call.pre.mSkipChange
    /\ call.in = MetaOk
    /\ call.res = OK
    /\ mSize = -1
    /\ trace = << >>
(***************************************************************************)
(* The volumes a Disk owns: scans that find two partitions, the partition  *)
(* operations, create() and destroy().                                     *)
(***************************************************************************)
InitOwned == InitWith({MmcDevice}, {{}}, BOOLEAN)

NextOwned ==
    \/ Create({MetaOk}, ScanEnvs(CoarseDumps \cup {TwoPartDump}))
    \/ Destroy
    \/ ReadPartitions(ScanEnvs(CoarseDumps \cup {TwoPartDump}))
    \/ PartitionPublic(ZapOk(PublicEnvs(MbrOrNothing)))
    \/ PartitionPrivate(FirstIssue(ZapOk(MixedEnvs(CoarseKeys))))
    \/ UnmountAll

SpecOwned == InitOwned /\ [][NextOwned]_vars

\* the devices of these volumes, in order
DevicesOf(vols) == [k \in 1..Len(vols) |-> vols[k].device]
\* the first position of trace where mVolumes is cleared
FirstClear == CHOOSE c \in At("mVolumes.clear") : \A i \in At("mVolumes.clear") : c <= i
\* the volumes the Disk had are destroyed, each once and in order, right
\* before position c of trace, and none before
DestroyedBefore(c) ==
    /\ c > Len(call.pre.mVolumes)
    /\ \A k \in 1..Len(call.pre.mVolumes) :
          Is(c - Len(call.pre.mVolumes) + k - 1, "vol.destroy", call.pre.mVolumes[k].device)
    /\ \A i \in At("vol.destroy") : i < c => i >= c - Len(call.pre.mVolumes)
\* the last operation is one of those that start by dropping the volumes
DropsVolumes ==
    \/ call.op = "destroy" /\ call.pre.mCreated
    \/ RealScan
    \/ call.op \in PartitionOps
    \/ /\ call.op = "create" /\ ~call.pre.mCreated /\ ~isStub
       /\ Determinable(call.in.sysfs) /\ ~call.pre.mSkipChange

\* C19: an operation that clears mVolumes - destroy(), a readPartitions()
\* that is not suppressed, each partition operation - has called destroy()
\* on every volume the Disk had, in the order of mVolumes, right before it
\* clears; an operation that does not clear keeps every volume the Disk had,
\* in place.  In destroy() every volume is destroyed and mVolumes cleared
\* before the disk-destroyed notification.
C19_DestroyedBeforeDropped ==
    /\ DropsVolumes => At("mVolumes.clear") # {}
    /\ At("mVolumes.clear") # {} => DestroyedBefore(FirstClear)
    /\ At("mVolumes.clear") = {} =>
          /\ Len(mVolumes) >= Len(call.pre.mVolumes)
          /\ SubSeq(DevicesOf(mVolumes), 1, Len(call.pre.mVolumes)) = DevicesOf(call.pre.mVolumes)
    /\ call.op = "destroy" =>
          \A n \in At("onDiskDestroyed") :
             /\ n = Len(trace)
             /\ \A i \in At("vol.destroy") \cup At("mVolumes.clear") : i < n

\* destroy() on a Disk with two volumes destroyed the first, then the second,
\* cleared mVolumes and then notified disk-destroyed
C19_Witness ==
    /\ call.op = "destroy"
    /\ Len(call.pre.mVolumes) = 2
    /\ call.pre.mVolumes[1].device # call.pre.mVolumes[2].device
    /\ Len(trace) = 4
    /\ Is(1, "vol.destroy", call.pre.mVolumes[1].device)
    /\ Is(2, "vol.destroy", call.pre.mVolumes[2].device)
    /\ trace[3].e = "mVolumes.clear"
    /\ trace[4].e = "onDiskDestroyed"
    /\ mVolumes = << >>

(***************************************************************************)
(* The table partitionMixed() and partitionPrivate() construct.            *)
(***************************************************************************)
\* the arguments the tool is given at position i of trace, between its path
\* and the device
ArgsAt(i) == SubSeq(trace[i].a.argv, 2, Len(trace[i].a.argv) - 1)
\* args define, from position p on, a partition of this size, type and name
Defines(args, p, size, type, name) ==
    /\ p + 2 <= Len(args)
    /\ args[p][1] = size
    /\ args[p + 1] = << "--typecode=0:%s", type >>
    /\ args[p + 2] = << name >>
\* args define the metadata partition and then the private one, with the
\* identifier guid, from position p on and nothing else after
MetaThenExpand(args, p, guid) ==
    /\ Len(args) = p + 6
    /\ Defines(args, p, "--new=0:0:+16M", kGptAndroidMeta, "--change-name=0:android_meta")
    /\ args[p + 3] = << "--new=0:0:-0" >>
    /\ args[p + 4] = << "--typecode=0:%s", kGptAndroidExpand >>
    /\ args[p + 5] = << "--partition-guid=0:%s", guid >>
    /\ args[p + 6] = << "--change-name=0:android_expand" >>
\* the table args define for this ratio: the shared partition first exactly
\* if the ratio is positive
TableFor(args, ratio, guid) ==
    IF ratio > 0
    THEN /\ Defines(args, 1, "--new=0:0:+%dM", kGptBasicData, "--change-name=0:shared")
         /\ MetaThenExpand(args, 4, guid)
    ELSE MetaThenExpand(args, 1, guid)
\* the key file was written for the identifier guid before position i
PersistedBefore(i, guid) ==
    \E k \in At("WriteStringToFile") :
       /\ k < i
       /\ trace[k].a[2] = BuildKeyPath(guid)
       /\ BuildKeyPath(guid) \in DOMAIN keyStore

\* C21: partitionMixed(ratio) runs the table construction at most once, and
\* the command defines, in this order, a basic-data partition named shared
\* exactly if ratio > 0, the 16 MiB Android-meta partition named
\* android_meta, and last the Android-expand partition named android_expand
\* on all the space left, under the identifier whose key file the call
\* wrote before.  partitionPrivate() runs the command of ratio 0: the
\* metadata partition and the private one.
C21_TableOrder ==
    /\ call.op \in {"partitionMixed", "partitionPrivate"} =>
          /\ Cardinality(Execs("new")) <= 1
          /\ \A i \in Execs("new") :
                /\ TableFor(ArgsAt(i),
                            IF call.op = "partitionPrivate" THEN 0 ELSE call.in.ratio,
                            StrToHex(call.in.env.uuid.v))
                /\ PersistedBefore(i, StrToHex(call.in.env.uuid.v))
                /\ trace[i].a.argv[1] = << kSgdiskPath >>
                /\ trace[i].a.argv[Len(trace[i].a.argv)] = mDevPath
    /\ call.op = "partitionPrivate" /\ Unfailing({call.in.env}) # {} => Execs("new") # {}

\* partitionMixed(50) on a Disk of 1 GiB defined the shared partition of
\* 511 MiB, the metadata partition and the private one
C21_Witness ==
    /\ call.op = "partitionMixed"
    /\ call.in.ratio = 50
    /\ call.res = OK
    /\ \E i \in Execs("new") :
          /\ Len(ArgsAt(i)) = 10
          /\ ArgsAt(i)[1] = << "--new=0:0:+%dM", 511 >>
          /\ ArgsAt(i)[3] = << "--change-name=0:shared" >>
          /\ ArgsAt(i)[6] = << "--change-name=0:android_meta" >>
          /\ ArgsAt(i)[9] = << "--partition-guid=0:%s", StrToHex(FirstGuid) >>

(***************************************************************************)
(* The two transient flags together.                                       *)
(***************************************************************************)
\* the volumes the last operation added: mVolumes is longer than it was, or
\* was cleared and filled again
VolumesAdded ==
    \/ Len(mVolumes) > Len(call.pre.mVolumes)
    \/ At("mVolumes.push_back") # {}
\* the last operation ran a scan past the test of mSkipChange
ScannedPastSkip ==
    /\ call.op \in {"readPartitions", "create"}
    /\ ~call.pre.mSkipChange
    /\ Execs("dump") # {}

\* C22: on a Disk that is not a stub, whenever mSkipChange is set
\* mJustPartitioned is set and mVolumes is empty.  mSkipChange becomes set
\* in partitionPublic() alone, after it destroyed the volumes and set
\* mJustPartitioned; volumes are added and mJustPartitioned is cleared only
\* by a scan (readPartitions(), alone or in create()) that found mSkipChange
\* clear.
C22_SkipChangeImplies ==
    ~isStub =>
        /\ mSkipChange => mJustPartitioned /\ mVolumes = << >>
        /\ mSkipChange /\ ~call.pre.mSkipChange =>
              /\ call.op = "partitionPublic"
              /\ \E k \in At("mSkipChange") :
                    /\ \A i \in At("mVolumes.clear") \cup At("mJustPartitioned") : i < k
                    /\ At("mVolumes.clear") # {} /\ At("mJustPartitioned") # {}
        /\ VolumesAdded => ScannedPastSkip
        /\ call.pre.mJustPartitioned /\ ~mJustPartitioned => ScannedPastSkip

\* partitionPublic() met an MBR table on a Disk that had a volume and had
\* not been partitioned: mSkipChange is set, there is no volume left
C22_Witness ==
    /\ ~isStub
    /\ call.op = "partitionPublic"
    /\ call.pre.mVolumes # << >>
    /\ ~call.pre.mJustPartitioned
    /\ ~call.pre.mSkipChange
    /\ mSkipChange
    /\ mJustPartitioned
    /\ mVolumes = << >>

=============================================================================
